---- MODULE Spec2Model ----
(***************************************************************************)
(* State-machine model of the SD-Core NRF operator charm                   *)
(* (src/src/charm.py).  The charm itself is stateless: the state is the    *)
(* Juju model it reads (leadership, relations, library data) and the       *)
(* workload container it drives (files, Pebble plan, service).  Every      *)
(* handler of the charm is one action.                                     *)
(***************************************************************************)
EXTENDS Integers, Sequences, FiniteSets, TLC

VARIABLES
    is_leader,              \* self.unit.is_leader()
    can_connect,            \* self._container.can_connect()
    storage,                \* mount points that exist in the container
    files,                  \* workload filesystem: existing path -> text
    plan,                   \* Pebble plan: service name -> service definition
    service_running,        \* the nrf service reports running
    relations,              \* required relations that are created
    nrf_databags,           \* fiveg_nrf relation id -> outgoing app data
    resource_created,       \* DatabaseRequires.is_resource_created()
    database_data,          \* the database relation data the library fetches
    webui_url,              \* SdcoreConfigRequires.webui_url
    pod_address,            \* whether the unit's network address resolves
    requirer_csr,           \* the signing request the TLS library holds
    private_key,            \* the private key the TLS library holds
    provider_certificates,  \* certificates the TLS provider has issued
    charm_config,           \* charm.config: option name -> value
    unit_status,            \* status set by the last collect-status
    workload_version,       \* version set by the last collect-status
    deferred,               \* events deferred for redelivery
    obs,                    \* what the last dispatched handler did
    passes                  \* consecutive passes since a signal last changed

container_vars == <<can_connect, storage, files, plan, service_running>>
signal_vars == <<is_leader, relations, resource_created, database_data, webui_url,
                 pod_address, requirer_csr, private_key, provider_certificates,
                 charm_config>>
juju_vars == <<signal_vars, nrf_databags>>
vars == <<container_vars, juju_vars, unit_status, workload_version, deferred,
          obs, passes>>

-----------------------------------------------------------------------------
(* Module constants of charm.py *)

PROMETHEUS_PORT == 8080
NRF_SBI_PORT == 29510
BASE_CONFIG_PATH == "/etc/nrf"
CONFIG_FILE_NAME == "nrfcfg.yaml"
DATABASE_NAME == "free5gc"
CERTS_DIR_PATH == "/support/TLS"
PRIVATE_KEY_NAME == "nrf.key"
CERTIFICATE_NAME == "nrf.pem"
CSR_NAME == "nrf.csr"
DATABASE_RELATION_NAME == "database"
NRF_RELATION_NAME == "fiveg_nrf"
SDCORE_CONFIG_RELATION_NAME == "sdcore_config"
TLS_RELATION_NAME == "certificates"
WORKLOAD_VERSION_FILE_NAME == "/etc/workload-version"
APP_NAME == "sdcore-nrf-k8s"

ConfigPath == "/etc/nrf/nrfcfg.yaml"
PrivateKeyPath == "/support/TLS/nrf.key"
CertificatePath == "/support/TLS/nrf.pem"
CsrPath == "/support/TLS/nrf.csr"
Paths == {ConfigPath, PrivateKeyPath, CertificatePath, CsrPath,
          WORKLOAD_VERSION_FILE_NAME}
TlsPaths == {PrivateKeyPath, CertificatePath, CsrPath}
MountPoints == {BASE_CONFIG_PATH, CERTS_DIR_PATH}

RequiredRelations == {DATABASE_RELATION_NAME, SDCORE_CONFIG_RELATION_NAME,
                      TLS_RELATION_NAME}

-----------------------------------------------------------------------------
(* Bounds and value domains of the model *)

MaxPasses == 2              \* passes counted since the last signal change
MaxNrfRelations == 2        \* fiveg_nrf relation ids 1..MaxNrfRelations
MaxProviderCertificates == 2 \* certificates in the provider's relation data

None == "<none>"

DatabaseUriNames == {"mongodb://a", "mongodb://b"}
WebuiUrls == {"webui-a:9876", "webui-b:9876"}
CsrNames == {"csr-1", "csr-2"}
CertificateNames == {"cert-1", "cert-2"}
KeyNames == {"key-1", "key-2"}
VersionNames == {"1.4.3"}
NrfRelationIds == 1..MaxNrfRelations

(* The value of the "uris" entry: a comma-separated list, kept as the      *)
(* sequence of its items (the empty string is the empty sequence).         *)
UriLists == {<<>>} \cup {<<u>> : u \in DatabaseUriNames}
              \cup {<<u, v>> : u \in DatabaseUriNames, v \in DatabaseUriNames}

(* The database relation data: credentials, with or without "uris". *)
DatabaseData == {[username |-> "dummy"]}
                  \cup {[username |-> "dummy", uris |-> l] : l \in UriLists}
NoDatabaseData == [username |-> None]

(* A PEM text on disk: its body and whether white space surrounds it.      *)
PemText(body, padded) == [body |-> body, padded |-> padded]
PemTexts(bodies) == {PemText(b, p) : b \in bodies, p \in BOOLEAN}

ProviderCertificate(csr, certificate) == [csr |-> csr, certificate |-> certificate]
NoProviderCertificate == ProviderCertificate(None, None)
ProviderCertificateLists(n) ==
    UNION {[1..k -> {ProviderCertificate(r, c) : r \in CsrNames, c \in CertificateNames}]
           : k \in 0..n}

-----------------------------------------------------------------------------
(* Container and library primitives the charm calls *)

(* Container.exists(path): a mount point or a file. *)
exists(fs, path) ==
    IF path \in MountPoints THEN path \in storage ELSE path \in DOMAIN fs

(* Container.push(path, source) *)
push(fs, path, source) ==
    [p \in DOMAIN fs \cup {path} |-> IF p = path THEN source ELSE fs[p]]

(* Container.remove_path(path): a missing path is a PathError. *)
remove_path(fs, path) ==
    IF path \notin DOMAIN fs
    THEN [files |-> fs, raised |-> "PathError"]
    ELSE [files |-> [p \in DOMAIN fs \ {path} |-> fs[p]], raised |-> None]

(* str(Certificate), str(PrivateKey): the bare PEM text. *)
to_string(object) == PemText(object, FALSE)

(* Certificate.from_string, PrivateKey.from_string: the text stripped of   *)
(* surrounding white space.                                                *)
from_string(text) == text.body

(* TLSCertificatesRequiresV4.get_assigned_certificate: the first provider  *)
(* certificate whose signing request is the requirer's, with the private   *)
(* key; (None, None) when the requirer holds no signing request.           *)
find_certificate_in_relation_data(csr) ==
    LET matching == {i \in 1..Len(provider_certificates) :
                        provider_certificates[i].csr = csr}
    IN  IF matching = {} THEN NoProviderCertificate
        ELSE provider_certificates[CHOOSE i \in matching :
                                       \A j \in matching : i <= j]

get_assigned_certificate ==
    IF requirer_csr = None
    THEN [provider_certificate |-> NoProviderCertificate, private_key |-> None]
    ELSE [provider_certificate |-> find_certificate_in_relation_data(requirer_csr),
          private_key |-> private_key]

-----------------------------------------------------------------------------
(* Helpers of NRFOperatorCharm *)

_relation_created(relation_name) ==
    IF relation_name = NRF_RELATION_NAME
    THEN DOMAIN nrf_databags # {}
    ELSE relation_name \in relations

(* Mutant: the certificates relation is left out of the mandatory ones. *)
Mutant_missing_relations ==
    SelectSeq(<<DATABASE_RELATION_NAME, SDCORE_CONFIG_RELATION_NAME>>,
              LAMBDA relation : ~_relation_created(relation))

_missing_relations ==
    SelectSeq(<<DATABASE_RELATION_NAME, SDCORE_CONFIG_RELATION_NAME, TLS_RELATION_NAME>>,
              LAMBDA relation : ~_relation_created(relation))

_database_is_available == resource_created

(* The relation data of the database, or the RuntimeError it raises. *)
_database_info ==
    IF ~_database_is_available
    THEN [raised |-> "RuntimeError", data |-> NoDatabaseData]
    ELSE [raised |-> None, data |-> database_data]

(* str.split(",")[0] of a comma-separated list *)
first_of_split(list) == IF Len(list) = 0 THEN "" ELSE list[1]

(* info["uris"].split(",")[0], "" on KeyError; a RuntimeError passes through *)
_get_database_uri ==
    LET info == _database_info
    IN  IF info.raised # None THEN info.raised
        ELSE IF "uris" \notin DOMAIN info.data THEN ""
        ELSE first_of_split(info.data.uris)

(* Mutant: an empty URL counts as a URL. *)
Mutant_webui_data_is_available == webui_url # None

_webui_data_is_available == webui_url # None /\ webui_url # ""

(* Mutant: a certificate is taken to be available without asking. *)
Mutant_certificate_is_available == TRUE

_certificate_is_available ==
    LET assigned == get_assigned_certificate
    IN  assigned.provider_certificate # NoProviderCertificate
        /\ assigned.private_key # None

_private_key_is_stored(fs) == exists(fs, PrivateKeyPath)

_certificate_is_stored(fs) == exists(fs, CertificatePath)

_get_stored_certificate(fs) == from_string(fs[CertificatePath])

_get_stored_private_key(fs) == from_string(fs[PrivateKeyPath])

_get_existing_certificate(fs) ==
    IF _certificate_is_stored(fs) THEN _get_stored_certificate(fs) ELSE None

_get_existing_private_key(fs) ==
    IF _private_key_is_stored(fs) THEN _get_stored_private_key(fs) ELSE None

(* Mutant: a certificate on disk is taken for the assigned one. *)
Mutant_is_certificate_update_required(fs, certificate) == ~_certificate_is_stored(fs)

_is_certificate_update_required(fs, certificate) ==
    _get_existing_certificate(fs) # certificate

(* Mutant: the private key is stored again in every pass. *)
Mutant_is_private_key_update_required(fs, key) == TRUE

_is_private_key_update_required(fs, key) ==
    _get_existing_private_key(fs) # key

_store_certificate(fs, certificate) == push(fs, CertificatePath, to_string(certificate))

(* Mutant: the private key is never pushed to the workload. *)
Mutant_store_private_key(fs, key) == fs

_store_private_key(fs, key) == push(fs, PrivateKeyPath, to_string(key))

(* Mutant: the gate does not ask whether the container can be reached. *)
Mutant_ready_to_configure_unreachable ==
    IF Len(_missing_relations) > 0 THEN FALSE
    ELSE IF ~_database_is_available THEN FALSE
    ELSE IF _get_database_uri = "" THEN FALSE
    ELSE IF ~_webui_data_is_available THEN FALSE
    ELSE IF ~exists(files, BASE_CONFIG_PATH) \/ ~exists(files, CERTS_DIR_PATH) THEN FALSE
    ELSE TRUE

(* Mutant: the gate does not ask for the webui URL. *)
Mutant_ready_to_configure_no_webui ==
    IF ~can_connect THEN FALSE
    ELSE IF Len(_missing_relations) > 0 THEN FALSE
    ELSE IF ~_database_is_available THEN FALSE
    ELSE IF _get_database_uri = "" THEN FALSE
    ELSE IF ~exists(files, BASE_CONFIG_PATH) \/ ~exists(files, CERTS_DIR_PATH) THEN FALSE
    ELSE TRUE

(* Mutant: the gate does not ask whether the storage is attached. *)
Mutant_ready_to_configure_no_storage ==
    IF ~can_connect THEN FALSE
    ELSE IF Len(_missing_relations) > 0 THEN FALSE
    ELSE IF ~_database_is_available THEN FALSE
    ELSE IF _get_database_uri = "" THEN FALSE
    ELSE IF ~_webui_data_is_available THEN FALSE
    ELSE TRUE

(* Mutant: the gate asks for the URI without asking for the database. *)
Mutant_ready_to_configure_no_database ==
    IF ~can_connect THEN FALSE
    ELSE IF Len(_missing_relations) > 0 THEN FALSE
    ELSE IF _get_database_uri = "" THEN FALSE
    ELSE IF ~_webui_data_is_available THEN FALSE
    ELSE IF ~exists(files, BASE_CONFIG_PATH) \/ ~exists(files, CERTS_DIR_PATH) THEN FALSE
    ELSE TRUE

(* ready_to_configure: the readiness gate, check by check. *)
ready_to_configure ==
    IF ~can_connect THEN FALSE
    ELSE IF Len(_missing_relations) > 0 THEN FALSE
    ELSE IF ~_database_is_available THEN FALSE
    ELSE IF _get_database_uri = "" THEN FALSE
    ELSE IF ~_webui_data_is_available THEN FALSE
    ELSE IF ~exists(files, BASE_CONFIG_PATH) \/ ~exists(files, CERTS_DIR_PATH) THEN FALSE
    ELSE TRUE

(* Mutant: only a changed certificate is reported, not a changed key. *)
Mutant_check_and_update_certificate(fs) ==
    LET assigned == get_assigned_certificate
        certificate == assigned.provider_certificate.certificate
        key == assigned.private_key
    IN  IF assigned.provider_certificate = NoProviderCertificate
           \/ assigned.private_key = None
        THEN [files |-> fs, writes |-> {}, updated |-> FALSE]
        ELSE LET certificate_update_required ==
                     _is_certificate_update_required(fs, certificate)
                 fs1 == IF certificate_update_required
                        THEN _store_certificate(fs, certificate) ELSE fs
                 private_key_update_required ==
                     _is_private_key_update_required(fs1, key)
                 fs2 == IF private_key_update_required
                        THEN _store_private_key(fs1, key) ELSE fs1
             IN  [files |-> fs2,
                  writes |-> (IF certificate_update_required
                              THEN {CertificatePath} ELSE {})
                             \cup (IF private_key_update_required
                                   THEN {PrivateKeyPath} ELSE {}),
                  updated |-> certificate_update_required]

(* _check_and_update_certificate: the files after it, which of them it     *)
(* pushed, and its return value.                                           *)
_check_and_update_certificate(fs) ==
    LET assigned == get_assigned_certificate
        certificate == assigned.provider_certificate.certificate
        key == assigned.private_key
    IN  IF assigned.provider_certificate = NoProviderCertificate
           \/ assigned.private_key = None
        THEN [files |-> fs, writes |-> {}, updated |-> FALSE]
        ELSE LET certificate_update_required ==
                     _is_certificate_update_required(fs, certificate)
                 fs1 == IF certificate_update_required
                        THEN _store_certificate(fs, certificate) ELSE fs
                 private_key_update_required ==
                     _is_private_key_update_required(fs1, key)
                 fs2 == IF private_key_update_required
                        THEN _store_private_key(fs1, key) ELSE fs1
             IN  [files |-> fs2,
                  writes |-> (IF certificate_update_required
                              THEN {CertificatePath} ELSE {})
                             \cup (IF private_key_update_required
                                   THEN {PrivateKeyPath} ELSE {}),
                  updated |-> certificate_update_required
                              \/ private_key_update_required]

(* _render_config: the text rendered from the template's six inputs; the  *)
(* empty text is the empty sequence.                                       *)
_render_config(database_name, database_url, webui, nrf_host, nrf_sbi_port, scheme) ==
    <<database_name, database_url, webui, nrf_host, nrf_sbi_port, scheme>>

EmptyText == <<>>

(* Mutant: the template renders to nothing. *)
Mutant_generate_nrf_config_file == EmptyText

_generate_nrf_config_file ==
    IF webui_url = None \/ webui_url = "" THEN EmptyText
    ELSE _render_config(DATABASE_NAME, _get_database_uri, webui_url, APP_NAME,
                        NRF_SBI_PORT, "https")

_config_file_is_written(fs) == exists(fs, ConfigPath)

(* Mutant: the file object itself, never read, is compared with the text. *)
Mutant_config_file_content_matches(fs, content) == FALSE

_config_file_content_matches(fs, content) ==
    IF ~exists(fs, ConfigPath) THEN FALSE
    ELSE IF fs[ConfigPath] # content THEN FALSE
    ELSE TRUE

(* Mutant: only a missing file calls for an update. *)
Mutant_is_config_update_required(fs, content) ==
    IF ~_config_file_is_written(fs) THEN TRUE ELSE FALSE

_is_config_update_required(fs, content) ==
    IF ~_config_file_is_written(fs) \/ ~_config_file_content_matches(fs, content)
    THEN TRUE ELSE FALSE

(* Mutant: the configuration is rendered and never pushed. *)
Mutant_push_config_file(fs, content) == fs

_push_config_file(fs, content) ==
    IF ~can_connect THEN fs ELSE push(fs, ConfigPath, content)

_environment_variables ==
    [GRPC_GO_LOG_VERBOSITY_LEVEL |-> "99", GRPC_GO_LOG_SEVERITY_LEVEL |-> "info",
     GRPC_TRACE |-> "all", GRPC_VERBOSITY |-> "debug",
     MANAGED_BY_CONFIG_POD |-> "true"]

(* The services of _pebble_layer. *)
_pebble_layer ==
    [nrf |-> [override |-> "replace", startup |-> "enabled",
              command |-> "/bin/nrf --nrfcfg /etc/nrf/nrfcfg.yaml",
              environment |-> _environment_variables]]

(* Mutant: a service already in the plan is kept as it is. *)
Mutant_add_layer(pl, layer) ==
    [s \in DOMAIN pl \cup DOMAIN layer |->
        IF s \in DOMAIN pl THEN pl[s] ELSE layer[s]]

(* Container.add_layer(..., combine=True): the layer's services replace    *)
(* those of the same name, the others stay.                                *)
add_layer(pl, layer) ==
    [s \in DOMAIN pl \cup DOMAIN layer |->
        IF s \in DOMAIN layer THEN layer[s] ELSE pl[s]]

(* _nrf_service_is_running, for a plan and a service state *)
ServiceIsRunning(pl, running) ==
    IF ~can_connect THEN FALSE
    ELSE IF "nrf" \notin DOMAIN pl THEN FALSE
    ELSE running

(* Mutant: a service in the plan counts as running. *)
Mutant_nrf_service_is_running == can_connect /\ "nrf" \in DOMAIN plan

_nrf_service_is_running == ServiceIsRunning(plan, service_running)

(* _configure_workload: plan and service after it, and what it did.  A     *)
(* replan starts the enabled services that are not running; a restart      *)
(* leaves the service running.                                             *)
(* Mutant: the restart is the alternative to applying the layer. *)
Mutant_configure_workload(pl, running, restart) ==
    LET apply == pl # _pebble_layer
        pl1 == IF apply THEN add_layer(pl, _pebble_layer) ELSE pl
        running1 == IF apply /\ pl1["nrf"].startup = "enabled" THEN TRUE ELSE running
    IN  [plan |-> pl1,
         running |-> IF restart /\ ~apply THEN TRUE ELSE running1,
         replans |-> IF apply THEN 1 ELSE 0,
         restarts |-> IF restart /\ ~apply THEN 1 ELSE 0]

(* Mutant: only the nrf service of the plan is compared with the layer. *)
Mutant_configure_workload_nrf_only(pl, running, restart) ==
    LET apply == "nrf" \notin DOMAIN pl \/ pl["nrf"] # _pebble_layer["nrf"]
        pl1 == IF apply THEN add_layer(pl, _pebble_layer) ELSE pl
        running1 == IF apply /\ pl1["nrf"].startup = "enabled" THEN TRUE ELSE running
    IN  [plan |-> pl1,
         running |-> IF restart THEN TRUE ELSE running1,
         replans |-> IF apply THEN 1 ELSE 0,
         restarts |-> IF restart THEN 1 ELSE 0]

_configure_workload(pl, running, restart) ==
    LET apply == pl # _pebble_layer
        pl1 == IF apply THEN add_layer(pl, _pebble_layer) ELSE pl
        running1 == IF apply /\ pl1["nrf"].startup = "enabled" THEN TRUE ELSE running
    IN  [plan |-> pl1,
         running |-> IF restart THEN TRUE ELSE running1,
         replans |-> IF apply THEN 1 ELSE 0,
         restarts |-> IF restart THEN 1 ELSE 0]

(* f"https://{self.model.app.name}:{NRF_SBI_PORT}"; a databag without the  *)
(* url key holds NoUrl.                                                    *)
_get_nrf_url == <<"https", APP_NAME, NRF_SBI_PORT>>
NoUrl == <<>>

(* What a call of the provider leaves: the databags and the error raised. *)
Published(bags) == [databags |-> bags, raised |-> None]
RelationNotCreated(bags) ==
    [databags |-> bags, raised |-> "RuntimeError: Relation fiveg_nrf not created yet."]

(* NRFProvides.set_nrf_information: the url in one relation's app data; a  *)
(* relation that does not exist is an error.                               *)
set_nrf_information(bags, url, relation_id) ==
    IF relation_id \notin DOMAIN bags THEN RelationNotCreated(bags)
    ELSE Published([bags EXCEPT ![relation_id] = url])

(* NRFProvides.set_nrf_information_in_all_relations *)
set_nrf_information_in_all_relations(bags, url) ==
    IF DOMAIN bags = {} THEN RelationNotCreated(bags)
    ELSE Published([id \in DOMAIN bags |-> url])

(* Mutant: nothing is published unless the service runs already. *)
Mutant_publish_nrf_info_for_all_requirers(bags) ==
    IF ~_relation_created(NRF_RELATION_NAME) \/ ~_nrf_service_is_running
    THEN Published(bags)
    ELSE set_nrf_information_in_all_relations(bags, _get_nrf_url)

(* Mutant: the URL is published without asking for a relation. *)
Mutant_publish_nrf_info_unguarded(bags) ==
    set_nrf_information_in_all_relations(bags, _get_nrf_url)

_publish_nrf_info_for_all_requirers(bags) ==
    IF ~_relation_created(NRF_RELATION_NAME) THEN Published(bags)
    ELSE set_nrf_information_in_all_relations(bags, _get_nrf_url)

(* Mutant: the version file is never read. *)
Mutant_get_workload_version == ""

_get_workload_version ==
    IF exists(files, WORKLOAD_VERSION_FILE_NAME)
    THEN files[WORKLOAD_VERSION_FILE_NAME] ELSE ""

-----------------------------------------------------------------------------
(* Charm configuration (charm_config.py) *)

(* class LogLevel *)
LogLevel == {"debug", "info", "warn", "error", "fatal", "panic"}

(* to_kebab *)
to_kebab(name) == IF name = "log_level" THEN "log-level" ELSE name

(* NrfConfig: field -> the values it accepts and its default.  A field is  *)
(* populated by its kebab-case alias only; other keys are ignored.         *)
NrfConfigFields == {"log_level"}
NrfConfigAccepts(field) == LogLevel
NrfConfigDefault(field) == "info"

(* The errors of a ValidationError: the aliases of the fields whose value  *)
(* is refused.                                                             *)
validation_errors(cfg) ==
    {to_kebab(field) : field \in {f \in NrfConfigFields :
                                     /\ to_kebab(f) \in DOMAIN cfg
                                     /\ cfg[to_kebab(f)] \notin NrfConfigAccepts(f)}}

(* error_fields.sort(): the names in order.  NrfConfig has one field, so  *)
(* at most one name is listed.                                             *)
sorted_fields(names) ==
    IF names = {} THEN <<>> ELSE <<CHOOSE name \in names : TRUE>>

(* CharmConfig.from_charm: the configuration, or the error it raises. *)
from_charm(cfg) ==
    LET error_fields == sorted_fields(validation_errors(cfg))
    IN  IF validation_errors(cfg) = {}
        THEN [raised |-> None,
              log_level |-> IF "log-level" \in DOMAIN cfg THEN cfg["log-level"]
                            ELSE NrfConfigDefault("log_level"),
              msg |-> <<>>]
        ELSE [raised |-> "CharmConfigInvalidError",
              log_level |-> None,
              msg |-> <<"The following configurations are not valid: [{}]",
                        error_fields>>]

(* The configurations Juju can hand to the charm. *)
CharmConfigs ==
    UNION {[keys -> {"info", "debug", "verbose", ""}] :
              keys \in SUBSET {"log-level", "log_level"}}
DefaultCharmConfig == [o \in {"log-level"} |-> "info"]

-----------------------------------------------------------------------------
(* Event dispatch *)

ConfigureEvents == {"database_relation_joined", "nrf_pebble_ready", "database_created",
                    "sdcore_config_relation_joined", "webui_url_available",
                    "certificates_relation_joined", "certificate_available"}
Events == ConfigureEvents \cup {"collect_unit_status", "fiveg_nrf_relation_joined",
                                "certificates_relation_broken"}

(* __init__: the handler observing each event.  A unit that is not the     *)
(* leader observes collect_unit_status only.                               *)
(* Mutant: every handler is observed before the leadership is looked at. *)
Mutant_handler_of(event) ==
    IF event = "collect_unit_status" THEN "_on_collect_unit_status"
    ELSE IF event \in ConfigureEvents THEN "_configure_nrf"
    ELSE IF event = "fiveg_nrf_relation_joined" THEN "_on_fiveg_nrf_relation_joined"
    ELSE IF event = "certificates_relation_broken"
         THEN "_on_certificates_relation_broken"
    ELSE "none"

handler_of(event) ==
    IF event = "collect_unit_status" THEN "_on_collect_unit_status"
    ELSE IF ~is_leader THEN "none"
    ELSE IF event \in ConfigureEvents THEN "_configure_nrf"
    ELSE IF event = "fiveg_nrf_relation_joined" THEN "_on_fiveg_nrf_relation_joined"
    ELSE IF event = "certificates_relation_broken"
         THEN "_on_certificates_relation_broken"
    ELSE "none"

(* What a handler run is seen to do. *)
Idle == [handler |-> "none", outcome |-> "none", writes |-> {}, removed |-> {},
         restarts |-> 0, replans |-> 0, published |-> {}, raised |-> None,
         deferred |-> FALSE, steps |-> <<>>]

(* The calls a handler made, in the order it made them. *)
Step(made, name) == IF made THEN <<name>> ELSE <<>>

Status(name, message) == [name |-> name, message |-> message, relations |-> <<>>]
BlockedStatus(message) == Status("blocked", message)
WaitingStatus(message) == Status("waiting", message)
ActiveStatus == Status("active", "")
UnknownStatus == Status("unknown", "")
(* BlockedStatus(f"Waiting for {', '.join(missing_relations)} relation(s)") *)
MissingRelationsStatus(missing) ==
    [name |-> "blocked", message |-> "Waiting for {} relation(s)", relations |-> missing]

-----------------------------------------------------------------------------
(* Handlers *)

(* Mutant: the status does not ask for the database URI. *)
Mutant_collected_status ==
    IF ~is_leader THEN BlockedStatus("Scaling is not implemented for this charm")
    ELSE IF ~can_connect THEN WaitingStatus("Waiting for container to be ready")
    ELSE IF Len(_missing_relations) > 0 THEN MissingRelationsStatus(_missing_relations)
    ELSE IF ~_database_is_available
         THEN WaitingStatus("Waiting for the database to be available")
    ELSE IF ~_webui_data_is_available
         THEN WaitingStatus("Waiting for Webui data to be available")
    ELSE IF ~exists(files, BASE_CONFIG_PATH) \/ ~exists(files, CERTS_DIR_PATH)
         THEN WaitingStatus("Waiting for storage to be attached")
    ELSE IF ~_certificate_is_available
         THEN WaitingStatus("Waiting for certificates to be available")
    ELSE IF ~_nrf_service_is_running
         THEN WaitingStatus("Waiting for NRF service to start")
    ELSE ActiveStatus

(* _on_collect_unit_status: the status it adds. *)
collected_status ==
    IF ~is_leader THEN BlockedStatus("Scaling is not implemented for this charm")
    ELSE IF ~can_connect THEN WaitingStatus("Waiting for container to be ready")
    ELSE IF Len(_missing_relations) > 0 THEN MissingRelationsStatus(_missing_relations)
    ELSE IF ~_database_is_available
         THEN WaitingStatus("Waiting for the database to be available")
    ELSE IF _get_database_uri = "" THEN WaitingStatus("Waiting for database URI")
    ELSE IF ~_webui_data_is_available
         THEN WaitingStatus("Waiting for Webui data to be available")
    ELSE IF ~exists(files, BASE_CONFIG_PATH) \/ ~exists(files, CERTS_DIR_PATH)
         THEN WaitingStatus("Waiting for storage to be attached")
    ELSE IF ~_certificate_is_available
         THEN WaitingStatus("Waiting for certificates to be available")
    ELSE IF ~_nrf_service_is_running
         THEN WaitingStatus("Waiting for NRF service to start")
    ELSE ActiveStatus

(* Mutant: collecting the status also publishes the URL. *)
Mutant_on_collect_unit_status ==
    /\ unit_status' = collected_status
    /\ workload_version' = IF is_leader /\ can_connect
                           THEN _get_workload_version ELSE workload_version
    /\ nrf_databags' = IF is_leader
                       THEN _publish_nrf_info_for_all_requirers(nrf_databags).databags
                       ELSE nrf_databags
    /\ UNCHANGED <<container_vars, signal_vars, deferred, obs, passes>>

_on_collect_unit_status ==
    /\ unit_status' = collected_status
    /\ workload_version' = IF is_leader /\ can_connect
                           THEN _get_workload_version ELSE workload_version
    /\ UNCHANGED <<container_vars, juju_vars, deferred, obs, passes>>

(* Mutant: the workload is configured before the configuration is pushed. *)
Mutant_configure_nrf_result ==
    LET quiet(outcome, steps) ==
            [files |-> files, plan |-> plan, running |-> service_running,
             databags |-> nrf_databags,
             obs |-> [Idle EXCEPT !.handler = "_configure_nrf", !.outcome = outcome,
                                  !.steps = steps]]
    IN  IF ~ready_to_configure THEN quiet("not_ready", <<"ready_to_configure">>)
        ELSE IF ~_certificate_is_available
             THEN quiet("no_certificate",
                        <<"ready_to_configure", "_certificate_is_available">>)
        ELSE LET certificate_update == _check_and_update_certificate(files)
                 desired_config_file == _generate_nrf_config_file
                 config_update_required ==
                     _is_config_update_required(certificate_update.files,
                                                desired_config_file)
                 workload == _configure_workload(
                                 plan, service_running,
                                 config_update_required \/ certificate_update.updated)
                 fs == IF config_update_required
                       THEN _push_config_file(certificate_update.files,
                                              desired_config_file)
                       ELSE certificate_update.files
                 published == _publish_nrf_info_for_all_requirers(nrf_databags)
             IN  [files |-> fs, plan |-> workload.plan, running |-> workload.running,
                  databags |-> published.databags,
                  obs |-> [Idle EXCEPT
                             !.handler = "_configure_nrf",
                             !.outcome = "configured",
                             !.writes = certificate_update.writes
                                        \cup {p \in {ConfigPath} :
                                                config_update_required /\ can_connect},
                             !.restarts = workload.restarts,
                             !.replans = workload.replans,
                             !.raised = published.raised,
                             !.published = IF _relation_created(NRF_RELATION_NAME)
                                           THEN DOMAIN nrf_databags ELSE {},
                             !.steps =
                                 <<"ready_to_configure", "_certificate_is_available">>
                                 \o Step(CertificatePath \in certificate_update.writes,
                                         "_store_certificate")
                                 \o Step(PrivateKeyPath \in certificate_update.writes,
                                         "_store_private_key")
                                 \o Step(workload.replans = 1, "replan")
                                 \o Step(workload.restarts = 1, "restart")
                                 \o Step(config_update_required, "_push_config_file")
                                 \o Step(_relation_created(NRF_RELATION_NAME),
                                         "set_nrf_information_in_all_relations")]]

(* _configure_nrf: what one reconciliation pass leaves behind. *)
_configure_nrf_result ==
    LET quiet(outcome, steps) ==
            [files |-> files, plan |-> plan, running |-> service_running,
             databags |-> nrf_databags,
             obs |-> [Idle EXCEPT !.handler = "_configure_nrf", !.outcome = outcome,
                                  !.steps = steps]]
    IN  IF ~ready_to_configure THEN quiet("not_ready", <<"ready_to_configure">>)
        ELSE IF ~_certificate_is_available
             THEN quiet("no_certificate",
                        <<"ready_to_configure", "_certificate_is_available">>)
        ELSE LET certificate_update == _check_and_update_certificate(files)
                 desired_config_file == _generate_nrf_config_file
                 config_update_required ==
                     _is_config_update_required(certificate_update.files,
                                                desired_config_file)
                 fs == IF config_update_required
                       THEN _push_config_file(certificate_update.files,
                                              desired_config_file)
                       ELSE certificate_update.files
                 workload == _configure_workload(
                                 plan, service_running,
                                 config_update_required \/ certificate_update.updated)
                 published == _publish_nrf_info_for_all_requirers(nrf_databags)
             IN  [files |-> fs, plan |-> workload.plan, running |-> workload.running,
                  databags |-> published.databags,
                  obs |-> [Idle EXCEPT
                             !.handler = "_configure_nrf",
                             !.outcome = "configured",
                             !.writes = certificate_update.writes
                                        \cup {p \in {ConfigPath} :
                                                config_update_required /\ can_connect},
                             !.restarts = workload.restarts,
                             !.replans = workload.replans,
                             !.raised = published.raised,
                             !.published = IF _relation_created(NRF_RELATION_NAME)
                                           THEN DOMAIN nrf_databags ELSE {},
                             !.steps =
                                 <<"ready_to_configure", "_certificate_is_available">>
                                 \o Step(CertificatePath \in certificate_update.writes,
                                         "_store_certificate")
                                 \o Step(PrivateKeyPath \in certificate_update.writes,
                                         "_store_private_key")
                                 \o Step(config_update_required, "_push_config_file")
                                 \o Step(workload.replans = 1, "replan")
                                 \o Step(workload.restarts = 1, "restart")
                                 \o Step(_relation_created(NRF_RELATION_NAME),
                                         "set_nrf_information_in_all_relations")]]

_configure_nrf ==
    LET pass == _configure_nrf_result
    IN  /\ files' = pass.files
        /\ plan' = pass.plan
        /\ service_running' = pass.running
        /\ nrf_databags' = pass.databags
        /\ obs' = pass.obs
        /\ passes' = IF passes < MaxPasses THEN passes + 1 ELSE passes
        /\ UNCHANGED <<can_connect, storage, signal_vars, unit_status,
                       workload_version, deferred>>

(* _delete_private_key, _delete_certificate: the files after them and the  *)
(* error they raise, if any.                                               *)
_delete_private_key(fs) ==
    IF ~_private_key_is_stored(fs) THEN [files |-> fs, raised |-> None]
    ELSE remove_path(fs, PrivateKeyPath)

_delete_certificate(fs) ==
    IF ~_certificate_is_stored(fs) THEN [files |-> fs, raised |-> None]
    ELSE remove_path(fs, CertificatePath)

(* Mutant: with the container unreachable the handler just returns. *)
Mutant_on_certificates_relation_broken_result ==
    IF ~can_connect
    THEN [files |-> files,
          obs |-> [Idle EXCEPT !.handler = "_on_certificates_relation_broken"]]
    ELSE LET key_gone == _delete_private_key(files)
             cert_gone == IF key_gone.raised # None THEN key_gone
                          ELSE _delete_certificate(key_gone.files)
         IN  [files |-> cert_gone.files,
              obs |-> [Idle EXCEPT !.handler = "_on_certificates_relation_broken",
                                   !.removed = DOMAIN files \ DOMAIN cert_gone.files,
                                   !.raised = cert_gone.raised]]

(* _on_certificates_relation_broken *)
_on_certificates_relation_broken_result ==
    IF ~can_connect
    THEN [files |-> files,
          obs |-> [Idle EXCEPT !.handler = "_on_certificates_relation_broken",
                               !.deferred = TRUE]]
    ELSE LET key_gone == _delete_private_key(files)
             cert_gone == IF key_gone.raised # None THEN key_gone
                          ELSE _delete_certificate(key_gone.files)
         IN  [files |-> cert_gone.files,
              obs |-> [Idle EXCEPT !.handler = "_on_certificates_relation_broken",
                                   !.removed = DOMAIN files \ DOMAIN cert_gone.files,
                                   !.raised = cert_gone.raised]]

(* Mutant: the deferred event is not kept for redelivery. *)
Mutant_on_certificates_relation_broken ==
    LET run == _on_certificates_relation_broken_result
    IN  /\ files' = run.files
        /\ obs' = run.obs
        /\ deferred' = deferred \ {"certificates_relation_broken"}
        /\ passes' = 0
        /\ UNCHANGED <<can_connect, storage, plan, service_running, nrf_databags,
                       unit_status, workload_version>>

(* Mutant: the service is stopped once its key and certificate are gone. *)
Mutant_on_certificates_relation_broken_stops ==
    LET run == _on_certificates_relation_broken_result
    IN  /\ files' = run.files
        /\ obs' = run.obs
        /\ deferred' = IF run.obs.deferred
                       THEN deferred \cup {"certificates_relation_broken"}
                       ELSE deferred \ {"certificates_relation_broken"}
        /\ passes' = 0
        /\ service_running' = IF run.obs.deferred THEN service_running ELSE FALSE
        /\ UNCHANGED <<can_connect, storage, plan, nrf_databags,
                       unit_status, workload_version>>

_on_certificates_relation_broken ==
    LET run == _on_certificates_relation_broken_result
    IN  /\ files' = run.files
        /\ obs' = run.obs
        /\ deferred' = IF run.obs.deferred
                       THEN deferred \cup {"certificates_relation_broken"}
                       ELSE deferred \ {"certificates_relation_broken"}
        /\ passes' = 0
        /\ UNCHANGED <<can_connect, storage, plan, service_running, nrf_databags,
                       unit_status, workload_version>>

(* Mutant: the URL goes out to every fiveg_nrf relation. *)
Mutant_on_fiveg_nrf_relation_joined(bags, relation_id) ==
    /\ nrf_databags' =
          IF ~_nrf_service_is_running THEN bags
          ELSE set_nrf_information_in_all_relations(bags, _get_nrf_url).databags
    /\ obs' = [Idle EXCEPT !.handler = "_on_fiveg_nrf_relation_joined",
                           !.published = IF _nrf_service_is_running
                                         THEN {relation_id} ELSE {}]
    /\ passes' = 0
    /\ UNCHANGED <<container_vars, unit_status, workload_version, deferred>>

(* _on_fiveg_nrf_relation_joined, for the relation of the event; bags are  *)
(* the databags with that relation in them.                                *)
_on_fiveg_nrf_relation_joined(bags, relation_id) ==
    /\ nrf_databags' =
          IF ~_nrf_service_is_running THEN bags
          ELSE set_nrf_information(bags, _get_nrf_url, relation_id).databags
    /\ obs' = [Idle EXCEPT !.handler = "_on_fiveg_nrf_relation_joined",
                           !.published = IF _nrf_service_is_running
                                         THEN {relation_id} ELSE {},
                           !.raised =
                               IF ~_nrf_service_is_running THEN None
                               ELSE set_nrf_information(bags, _get_nrf_url,
                                                        relation_id).raised]
    /\ passes' = 0
    /\ UNCHANGED <<container_vars, unit_status, workload_version, deferred>>

(* generate_csr: a signing request not used before, for the given key. *)
generate_csr(key) == CHOOSE csr \in CsrNames : csr # requirer_csr

(* Mutant: any expiry notification is followed by a new request. *)
Mutant_on_certificate_expiring_result(certificate) ==
    IF ~can_connect
    THEN [files |-> files, csr |-> requirer_csr,
          obs |-> [Idle EXCEPT !.handler = "_on_certificate_expiring",
                               !.outcome = "ignored"]]
    ELSE LET csr == generate_csr(_get_existing_private_key(files))
         IN  [files |-> push(files, CsrPath, to_string(csr)), csr |-> csr,
              obs |-> [Idle EXCEPT !.handler = "_on_certificate_expiring",
                                   !.outcome = "requested",
                                   !.writes = {CsrPath}]]

(* _on_certificate_expiring of the charm that keeps the signing request    *)
(* itself: the notified certificate is compared with the stored one, and   *)
(* only for the stored one a new signing request is generated with the     *)
(* stored private key, stored and sent.                                    *)
_on_certificate_expiring_result(certificate) ==
    IF ~can_connect \/ _get_existing_certificate(files) # certificate
    THEN [files |-> files, csr |-> requirer_csr,
          obs |-> [Idle EXCEPT !.handler = "_on_certificate_expiring",
                               !.outcome = "ignored"]]
    ELSE LET csr == generate_csr(_get_existing_private_key(files))
         IN  [files |-> push(files, CsrPath, to_string(csr)), csr |-> csr,
              obs |-> [Idle EXCEPT !.handler = "_on_certificate_expiring",
                                   !.outcome = "requested",
                                   !.writes = {CsrPath}]]

_on_certificate_expiring(certificate) ==
    LET run == _on_certificate_expiring_result(certificate)
    IN  /\ files' = run.files
        /\ requirer_csr' = run.csr
        /\ obs' = run.obs
        /\ passes' = 0
        /\ UNCHANGED <<can_connect, storage, plan, service_running, nrf_databags,
                       is_leader, charm_config, relations, resource_created,
                       database_data, webui_url, pod_address, private_key,
                       provider_certificates, unit_status, workload_version,
                       deferred>>

(* An event no handler observes: nothing runs. *)
no_handler ==
    /\ obs' = Idle
    /\ passes' = 0
    /\ UNCHANGED <<container_vars, unit_status, workload_version, deferred>>

-----------------------------------------------------------------------------
(* Actions: an event reaches the unit and the handler observing it runs *)

CollectUnitStatus == _on_collect_unit_status

(* One of the events routed to _configure_nrf. *)
ConfigureNrf ==
    \E handler \in {handler_of(event) : event \in ConfigureEvents} :
        IF handler = "_configure_nrf" THEN _configure_nrf
        ELSE no_handler /\ UNCHANGED <<signal_vars, nrf_databags>>

(* The certificates relation is removed: its data goes with it. *)
CertificatesRelationBroken ==
    /\ TLS_RELATION_NAME \in relations
    /\ relations' = relations \ {TLS_RELATION_NAME}
    /\ requirer_csr' = None
    /\ private_key' = None
    /\ provider_certificates' = <<>>
    /\ UNCHANGED <<is_leader, charm_config, resource_created, database_data, webui_url, pod_address>>
    /\ IF handler_of("certificates_relation_broken") = "_on_certificates_relation_broken"
       THEN _on_certificates_relation_broken
       ELSE no_handler /\ UNCHANGED nrf_databags

(* The framework emits a deferred certificates_relation_broken again. *)
RedeliverCertificatesRelationBroken ==
    /\ "certificates_relation_broken" \in deferred
    /\ UNCHANGED signal_vars
    /\ _on_certificates_relation_broken

(* The certificates library notifies that a certificate is about to       *)
(* expire.                                                                 *)
CertificateExpiring ==
    /\ is_leader
    /\ TLS_RELATION_NAME \in relations
    /\ requirer_csr # None
    /\ \E certificate \in CertificateNames : _on_certificate_expiring(certificate)

(* A unit joins a fiveg_nrf relation, creating it if need be. *)
FivegNrfRelationJoined ==
    \E relation_id \in NrfRelationIds :
        LET bags == [id \in DOMAIN nrf_databags \cup {relation_id} |->
                        IF id \in DOMAIN nrf_databags THEN nrf_databags[id] ELSE NoUrl]
        IN  /\ UNCHANGED signal_vars
            /\ IF handler_of("fiveg_nrf_relation_joined")
                    = "_on_fiveg_nrf_relation_joined"
               THEN _on_fiveg_nrf_relation_joined(bags, relation_id)
               ELSE no_handler /\ nrf_databags' = bags

(* Changes of the unit's surroundings.  The events they raise reach the   *)
(* unit through the actions above.                                         *)
EnvironmentChanges(changed) ==
    /\ passes' = 0
    /\ UNCHANGED <<unit_status, workload_version, deferred, obs, nrf_databags>>
    /\ changed

(* Pebble in the workload container comes up or goes away. *)
ContainerConnectivityChanges ==
    EnvironmentChanges(
        /\ can_connect' = ~can_connect
        /\ UNCHANGED <<storage, files, plan, service_running, signal_vars>>)

(* A storage is attached to the container. *)
StorageAttached ==
    \E mount \in MountPoints \ storage :
        EnvironmentChanges(
            /\ storage' = storage \cup {mount}
            /\ UNCHANGED <<can_connect, files, plan, service_running, signal_vars>>)

(* One of the three mandatory relations is created, still without data. *)
RelationCreated ==
    \E relation \in RequiredRelations \ relations :
        EnvironmentChanges(
            /\ relations' = relations \cup {relation}
            /\ UNCHANGED <<container_vars, is_leader, charm_config, resource_created, database_data,
                           webui_url, pod_address, requirer_csr, private_key,
                           provider_certificates>>)

(* The database or the sdcore_config relation is removed, with its data. *)
RelationRemoved ==
    \E relation \in relations \ {TLS_RELATION_NAME} :
        EnvironmentChanges(
            /\ relations' = relations \ {relation}
            /\ resource_created' = IF relation = DATABASE_RELATION_NAME
                                   THEN FALSE ELSE resource_created
            /\ database_data' = IF relation = DATABASE_RELATION_NAME
                                THEN NoDatabaseData ELSE database_data
            /\ webui_url' = IF relation = SDCORE_CONFIG_RELATION_NAME
                            THEN None ELSE webui_url
            /\ UNCHANGED <<container_vars, is_leader, charm_config, pod_address, requirer_csr,
                           private_key, provider_certificates>>)

(* The database provider creates the database and publishes its data. *)
DatabaseCreated ==
    /\ DATABASE_RELATION_NAME \in relations
    /\ ~resource_created
    /\ \E data \in {[username |-> "dummy"],
                     [username |-> "dummy", uris |-> <<"mongodb://a">>]} :
        EnvironmentChanges(
            /\ resource_created' = TRUE
            /\ database_data' = data
            /\ UNCHANGED <<container_vars, is_leader, charm_config, relations, webui_url, pod_address,
                           requirer_csr, private_key, provider_certificates>>)

(* The webui publishes its URL. *)
WebuiUrlPublished ==
    /\ SDCORE_CONFIG_RELATION_NAME \in relations
    /\ \E url \in {"", "webui-a:9876"} \ {webui_url} :
        EnvironmentChanges(
            /\ webui_url' = url
            /\ UNCHANGED <<container_vars, is_leader, charm_config, relations, resource_created,
                           database_data, pod_address, requirer_csr, private_key,
                           provider_certificates>>)

(* The certificates provider issues a certificate for a signing request. *)
CertificateIssued ==
    /\ TLS_RELATION_NAME \in relations
    /\ Len(provider_certificates) < MaxProviderCertificates
    /\ \E issued \in {ProviderCertificate("csr-1", "cert-1"),
                       ProviderCertificate("csr-2", "cert-2")} :
        EnvironmentChanges(
            /\ provider_certificates' = Append(provider_certificates, issued)
            /\ UNCHANGED <<container_vars, is_leader, charm_config, relations, resource_created,
                           database_data, webui_url, pod_address, requirer_csr,
                           private_key>>)

(* On the leader the TLS library, given the certificate request of the    *)
(* charm, generates the private key and the signing request.               *)
CertificateRequested ==
    /\ is_leader
    /\ TLS_RELATION_NAME \in relations
    /\ requirer_csr = None
    /\ EnvironmentChanges(
            /\ requirer_csr' = "csr-1"
            /\ private_key' = "key-1"
            /\ UNCHANGED <<container_vars, is_leader, charm_config, relations, resource_created,
                           database_data, webui_url, pod_address,
                           provider_certificates>>)

(* The nrf process exits. *)
ServiceExits ==
    /\ service_running
    /\ service_running' = FALSE
    /\ passes' = 0
    /\ UNCHANGED <<can_connect, storage, files, plan, juju_vars, unit_status,
                   workload_version, deferred, obs>>

(* The operator changes the configuration of the application.  The charm  *)
(* observes no config_changed event.                                       *)
ConfigChanged ==
    \E cfg \in CharmConfigs \ {charm_config} :
        EnvironmentChanges(
            /\ charm_config' = cfg
            /\ UNCHANGED <<container_vars, is_leader, relations, resource_created,
                           database_data, webui_url, pod_address, requirer_csr,
                           private_key, provider_certificates>>)

(* The workload image changes what /etc/workload-version holds, or drops   *)
(* the file.                                                               *)
NewerVersionNames == {"1.5.0"}

WorkloadVersionFileChanges ==
    \E version \in {None} \cup VersionNames \cup NewerVersionNames :
        LET others == [p \in DOMAIN files \ {WORKLOAD_VERSION_FILE_NAME} |-> files[p]]
            changed == IF version = None THEN others
                       ELSE push(others, WORKLOAD_VERSION_FILE_NAME, version)
        IN  /\ changed # files
            /\ EnvironmentChanges(
                  /\ files' = changed
                  /\ UNCHANGED <<can_connect, storage, plan, service_running,
                                 signal_vars>>)

-----------------------------------------------------------------------------
(* Initial states *)

Optional(S) == {<<>>} \cup {<<x>> : x \in S}

(* The filesystem holding the files picked: path -> <<>> or <<text>>. *)
MakeFiles(pick) == [p \in {q \in DOMAIN pick : Len(pick[q]) > 0} |-> pick[p][1]]

ConfigTexts(uris, urls) ==
    {_render_config(DATABASE_NAME, u, w, APP_NAME, NRF_SBI_PORT, "https") :
        u \in uris, w \in urls}

StaleService == [override |-> "replace", startup |-> "enabled",
                 command |-> "/bin/nrf", environment |-> _environment_variables]
OtherService == [override |-> "replace", startup |-> "disabled",
                 command |-> "/bin/other", environment |-> _environment_variables]
Plans(names) ==
    {[s \in D |-> IF s = "nrf" THEN d ELSE OtherService] :
        D \in SUBSET names, d \in {_pebble_layer["nrf"], StaleService}}

(* What holds of the signals in every state the unit can be in. *)
ConsistentDatabase ==
    /\ DATABASE_RELATION_NAME \notin relations => ~resource_created
    /\ resource_created <=> database_data # NoDatabaseData
ConsistentWebui == SDCORE_CONFIG_RELATION_NAME \notin relations => webui_url = None
ConsistentTls ==
    /\ TLS_RELATION_NAME \notin relations
          => requirer_csr = None /\ provider_certificates = <<>>
    /\ requirer_csr = None <=> private_key = None
ConsistentFiles ==
    /\ ConfigPath \in DOMAIN files => BASE_CONFIG_PATH \in storage
    /\ DOMAIN files \cap TlsPaths # {} => CERTS_DIR_PATH \in storage
ConsistentService == service_running => "nrf" \in DOMAIN plan

InitGhost ==
    /\ unit_status = UnknownStatus
    /\ workload_version = ""
    /\ deferred = {}
    /\ obs = Idle
    /\ passes = 0

(* The leader in any snapshot of the signals, over any workload state. *)
Init ==
    /\ is_leader = TRUE
    /\ pod_address = TRUE
    /\ can_connect \in BOOLEAN
    /\ relations \in SUBSET RequiredRelations
    /\ resource_created \in BOOLEAN
    /\ database_data \in {NoDatabaseData, [username |-> "dummy"]}
           \cup {[username |-> "dummy", uris |-> l] :
                    l \in {<<"mongodb://a">>, <<"mongodb://b", "mongodb://a">>}}
    /\ ConsistentDatabase
    /\ webui_url \in {None, "webui-a:9876"}
    /\ ConsistentWebui
    /\ requirer_csr \in {None, "csr-1"}
    /\ private_key \in {None} \cup KeyNames
    /\ provider_certificates \in
           {l \in ProviderCertificateLists(1) :
               \A i \in 1..Len(l) : l[i] # ProviderCertificate("csr-2", "cert-2")}
    /\ ConsistentTls
    /\ storage \in SUBSET MountPoints
    /\ \E config \in Optional(ConfigTexts(DatabaseUriNames, {"webui-a:9876"})),
          key \in Optional({to_string(k) : k \in KeyNames}),
          certificate \in Optional({to_string(c) : c \in CertificateNames}
                                      \cup {PemText("cert-1", TRUE)}) :
          files = MakeFiles([p \in {ConfigPath, PrivateKeyPath, CertificatePath} |->
                               IF p = ConfigPath THEN config
                               ELSE IF p = PrivateKeyPath THEN key ELSE certificate])
    /\ ConsistentFiles
    /\ plan \in Plans({"nrf"})
    /\ service_running \in BOOLEAN
    /\ ConsistentService
    /\ nrf_databags = <<>>
    /\ charm_config = DefaultCharmConfig
    /\ InitGhost

Next ==
    \/ ConfigureNrf
    \/ CollectUnitStatus
    \/ ServiceExits

Spec == Init /\ [][Next]_vars

(* Any unit, leader or not, in any snapshot of the signals the readiness   *)
(* gate and the status read, over a workload with or without its service.  *)
InitStatus ==
    /\ is_leader \in BOOLEAN
    /\ pod_address \in BOOLEAN
    /\ can_connect \in BOOLEAN
    /\ relations \in SUBSET RequiredRelations
    /\ resource_created \in BOOLEAN
    /\ database_data \in {NoDatabaseData, [username |-> "dummy"]}
           \cup {[username |-> "dummy", uris |-> l] :
                    l \in {<<>>, <<"mongodb://a">>, <<"mongodb://b", "mongodb://a">>}}
    /\ ConsistentDatabase
    /\ webui_url \in {None, "", "webui-a:9876"}
    /\ ConsistentWebui
    /\ requirer_csr \in {None, "csr-1"}
    /\ private_key \in {None, "key-1"}
    /\ provider_certificates \in
           {<<>>, <<ProviderCertificate("csr-1", "cert-1")>>,
            <<ProviderCertificate("csr-2", "cert-2")>>}
    /\ ConsistentTls
    /\ storage \in SUBSET MountPoints
    /\ \E version \in Optional(VersionNames) :
          files = MakeFiles([p \in {WORKLOAD_VERSION_FILE_NAME} |-> version])
    /\ plan \in {<<>>, _pebble_layer}
    /\ service_running \in BOOLEAN
    /\ ConsistentService
    /\ nrf_databags = <<>>
    /\ charm_config = DefaultCharmConfig
    /\ InitGhost

NextStatus ==
    \/ CollectUnitStatus
    \/ ConfigureNrf

SpecStatus == InitStatus /\ [][NextStatus]_vars

(* The leader with everything but the certificate settled: any signing     *)
(* request, any certificates issued, any of the TLS files left on disk.    *)
InitTls ==
    /\ is_leader = TRUE
    /\ pod_address = TRUE
    /\ can_connect \in BOOLEAN
    /\ relations \in {RequiredRelations, RequiredRelations \ {TLS_RELATION_NAME}}
    /\ resource_created = TRUE
    /\ database_data = [username |-> "dummy", uris |-> <<"mongodb://a">>]
    /\ webui_url = "webui-a:9876"
    /\ \E request \in {<<None, None>>, <<"csr-1", "key-1">>, <<"csr-2", "key-2">>} :
          /\ requirer_csr = request[1]
          /\ private_key = request[2]
    /\ provider_certificates \in ProviderCertificateLists(MaxProviderCertificates)
    /\ ConsistentTls
    /\ storage \in {MountPoints, {BASE_CONFIG_PATH}}
    /\ \E config \in ConfigTexts({"mongodb://a"}, {"webui-a:9876"}),
          key \in Optional({to_string(k) : k \in KeyNames}),
          csr \in Optional({to_string("csr-1")}),
          certificate \in Optional({to_string(c) : c \in CertificateNames}
                                      \cup {PemText("cert-1", TRUE)}) :
          files = MakeFiles([p \in {ConfigPath} \cup TlsPaths |->
                               IF p = ConfigPath THEN <<config>>
                               ELSE IF p = PrivateKeyPath THEN key
                               ELSE IF p = CsrPath THEN csr ELSE certificate])
    /\ ConsistentFiles
    /\ plan \in {<<>>, _pebble_layer}
    /\ service_running \in BOOLEAN
    /\ ConsistentService
    /\ nrf_databags = <<>>
    /\ charm_config = DefaultCharmConfig
    /\ InitGhost

NextTls ==
    \/ ConfigureNrf
    \/ CertificatesRelationBroken
    \/ RedeliverCertificatesRelationBroken
    \/ ContainerConnectivityChanges
    \/ CollectUnitStatus

SpecTls == InitTls /\ [][NextTls]_vars

(* The leader once the database and the webui are settled: first without  *)
(* container, certificates relation or requirer, then through any sequence *)
(* of changes of its surroundings and of events.                           *)
InitLeader ==
    /\ is_leader = TRUE
    /\ pod_address = TRUE
    /\ can_connect = FALSE
    /\ relations = {DATABASE_RELATION_NAME, SDCORE_CONFIG_RELATION_NAME}
    /\ resource_created = TRUE
    /\ database_data = [username |-> "dummy", uris |-> <<"mongodb://a">>]
    /\ webui_url = "webui-a:9876"
    /\ requirer_csr = None
    /\ private_key = None
    /\ provider_certificates = <<>>
    /\ storage = MountPoints
    /\ files = <<>>
    /\ plan = <<>>
    /\ service_running = FALSE
    /\ nrf_databags = <<>>
    /\ charm_config = DefaultCharmConfig
    /\ InitGhost

NextLeader ==
    \/ ContainerConnectivityChanges
    \/ RelationCreated
    \/ CertificateRequested
    \/ CertificateIssued
    \/ ServiceExits
    \/ ConfigureNrf
    \/ CertificatesRelationBroken
    \/ RedeliverCertificatesRelationBroken
    \/ FivegNrfRelationJoined
    \/ CollectUnitStatus

SpecLeader == InitLeader /\ [][NextLeader]_vars

(* A unit that is not the leader, which may have been one before: first   *)
(* with nothing around it, then through any sequence of changes and events.*)
InitFollower ==
    /\ is_leader = FALSE
    /\ pod_address = TRUE
    /\ can_connect = FALSE
    /\ relations \in {{}, {TLS_RELATION_NAME}}
    /\ resource_created = FALSE
    /\ database_data = NoDatabaseData
    /\ webui_url = None
    /\ requirer_csr \in {None, "csr-1"}
    /\ private_key \in {None, "key-1"}
    /\ provider_certificates = <<>>
    /\ ConsistentTls
    /\ storage = {}
    /\ files = <<>>
    /\ plan \in {<<>>, _pebble_layer}
    /\ service_running \in BOOLEAN
    /\ ConsistentService
    /\ nrf_databags = <<>>
    /\ charm_config = DefaultCharmConfig
    /\ InitGhost

NextFollower ==
    \/ ContainerConnectivityChanges
    \/ StorageAttached
    \/ RelationCreated
    \/ RelationRemoved
    \/ DatabaseCreated
    \/ WebuiUrlPublished
    \/ CertificateIssued
    \/ ConfigureNrf
    \/ CertificatesRelationBroken
    \/ FivegNrfRelationJoined
    \/ CollectUnitStatus

SpecFollower == InitFollower /\ [][NextFollower]_vars

(* The leader with its relations and its signing request settled, before   *)
(* or after the certificate is issued, over a workload either untouched or *)
(* configured by an earlier pass, its service running or not; then through *)
(* any sequence of changes and events, every event the charm observes      *)
(* delivered in the end: a pass that has something to do runs, the status  *)
(* is collected, and a deferred certificates_relation_broken is emitted    *)
(* again.                                                                  *)
InitConverge ==
    /\ is_leader = TRUE
    /\ pod_address = TRUE
    /\ can_connect \in BOOLEAN
    /\ relations = RequiredRelations
    /\ resource_created = TRUE
    /\ database_data = [username |-> "dummy", uris |-> <<"mongodb://a">>]
    /\ webui_url = "webui-a:9876"
    /\ requirer_csr = "csr-1"
    /\ private_key = "key-1"
    /\ provider_certificates \in {<<>>, <<ProviderCertificate("csr-1", "cert-1")>>}
    /\ storage = MountPoints
    /\ \E configured \in {<<>>, <<ProviderCertificate("csr-1", "cert-1")>>} :
          /\ configured # <<>> => provider_certificates = configured
          /\ files = IF configured = <<>> THEN <<>>
                     ELSE push(_store_private_key(
                                   _store_certificate(<<>>, "cert-1"), "key-1"),
                               ConfigPath, _generate_nrf_config_file)
          /\ plan = IF configured = <<>> THEN <<>> ELSE _pebble_layer
    /\ service_running \in BOOLEAN
    /\ ConsistentService
    /\ nrf_databags = <<>>
    /\ charm_config = DefaultCharmConfig
    /\ InitGhost

NextConverge ==
    \/ NextTls
    \/ CertificateIssued
    \/ FivegNrfRelationJoined

Fairness ==
    /\ WF_vars(ConfigureNrf)
    /\ WF_vars(CollectUnitStatus)
    /\ WF_vars(RedeliverCertificatesRelationBroken)

SpecConverge == InitConverge /\ [][NextConverge]_vars /\ Fairness

(* The same unit when only its own handlers and the container's          *)
(* connectivity act; a deferred event is redelivered with the next hook. *)
RedeliveryFairness == WF_vars(RedeliverCertificatesRelationBroken)

SpecDeferred == InitConverge /\ [][NextTls]_vars /\ RedeliveryFairness

(* The leader with everything settled and the certificate issued, under   *)
(* any configuration of the application, which the operator may change.    *)
InitConfig ==
    /\ is_leader = TRUE
    /\ pod_address = TRUE
    /\ can_connect \in BOOLEAN
    /\ relations = RequiredRelations
    /\ resource_created = TRUE
    /\ database_data = [username |-> "dummy", uris |-> <<"mongodb://a">>]
    /\ webui_url = "webui-a:9876"
    /\ requirer_csr = "csr-1"
    /\ private_key = "key-1"
    /\ provider_certificates = <<ProviderCertificate("csr-1", "cert-1")>>
    /\ charm_config \in CharmConfigs
    /\ storage = MountPoints
    /\ files = <<>>
    /\ plan = <<>>
    /\ service_running = FALSE
    /\ nrf_databags = <<>>
    /\ InitGhost

NextConfig ==
    \/ ConfigChanged
    \/ ContainerConnectivityChanges
    \/ ConfigureNrf
    \/ CollectUnitStatus

SpecConfig == InitConfig /\ [][NextConfig]_vars

(* The leader of InitConverge, its certificate expiring now and then. *)
NextExpiry ==
    \/ NextTls
    \/ CertificateIssued
    \/ CertificateExpiring

SpecExpiry == InitConverge /\ [][NextExpiry]_vars

(* The leader with everything settled and the certificate issued, over a  *)
(* plan that may hold the nrf service, as it should be or stale, and a     *)
(* service of another layer.                                               *)
InitPlan ==
    /\ is_leader = TRUE
    /\ pod_address = TRUE
    /\ can_connect \in BOOLEAN
    /\ relations = RequiredRelations
    /\ resource_created = TRUE
    /\ database_data = [username |-> "dummy", uris |-> <<"mongodb://a">>]
    /\ webui_url = "webui-a:9876"
    /\ requirer_csr = "csr-1"
    /\ private_key = "key-1"
    /\ provider_certificates \in {<<>>, <<ProviderCertificate("csr-1", "cert-1")>>}
    /\ charm_config = DefaultCharmConfig
    /\ storage = MountPoints
    /\ files = <<>>
    /\ plan \in Plans({"nrf", "other"})
    /\ service_running \in BOOLEAN
    /\ ConsistentService
    /\ nrf_databags = <<>>
    /\ InitGhost

NextPlan ==
    \/ ConfigureNrf
    \/ ContainerConnectivityChanges
    \/ ServiceExits
    \/ CollectUnitStatus

SpecPlan == InitPlan /\ [][NextPlan]_vars

(* The leader in service: everything settled, the certificate and the key  *)
(* stored, the service running and the status Active; then any of the      *)
(* mandatory relations is removed and established again, its provider      *)
(* publishing its data anew, every event delivered in the end.             *)
InitRecover ==
    /\ is_leader = TRUE
    /\ pod_address = TRUE
    /\ can_connect = TRUE
    /\ relations = RequiredRelations
    /\ resource_created = TRUE
    /\ database_data = [username |-> "dummy", uris |-> <<"mongodb://a">>]
    /\ webui_url = "webui-a:9876"
    /\ requirer_csr = "csr-1"
    /\ private_key = "key-1"
    /\ provider_certificates = <<ProviderCertificate("csr-1", "cert-1")>>
    /\ charm_config = DefaultCharmConfig
    /\ storage = MountPoints
    /\ files = push(_store_private_key(_store_certificate(<<>>, "cert-1"), "key-1"),
                    ConfigPath, _generate_nrf_config_file)
    /\ plan = _pebble_layer
    /\ service_running = TRUE
    /\ nrf_databags = <<>>
    /\ unit_status = ActiveStatus
    /\ workload_version = ""
    /\ deferred = {}
    /\ obs = Idle
    /\ passes = 0

NextRecover ==
    \/ CertificatesRelationBroken
    \/ RelationRemoved
    \/ RelationCreated
    \/ DatabaseCreated
    \/ WebuiUrlPublished
    \/ CertificateRequested
    \/ CertificateIssued
    \/ ConfigureNrf
    \/ CollectUnitStatus

SpecRecover == InitRecover /\ [][NextRecover]_vars /\ Fairness

(* Any unit in any snapshot of the signals, over a workload whose version  *)
(* file comes, goes and changes.                                           *)
NextVersion ==
    \/ CollectUnitStatus
    \/ ConfigureNrf
    \/ WorkloadVersionFileChanges

SpecVersion == InitStatus /\ [][NextVersion]_vars

(* The leader of InitLeader when the database and the sdcore_config        *)
(* relation, too, come and go with their data.                             *)
NextHandlers ==
    \/ NextRecover
    \/ ContainerConnectivityChanges
    \/ RedeliverCertificatesRelationBroken

SpecHandlers == InitLeader /\ [][NextHandlers]_vars

-----------------------------------------------------------------------------
(* Properties *)

(* C1. Idempotence of reconciliation: a pass that follows another pass     *)
(* with no signal changed in between pushes no file (certificate, private  *)
(* key, config) and restarts no service.                                   *)
C1_SecondPassIsQuiet ==
    passes >= 2 =>
        /\ obs.handler = "_configure_nrf"
        /\ obs.writes = {}
        /\ obs.restarts = 0

(* A second pass in a row that got past the gate and the certificate check. *)
C1_Witness ==
    /\ passes >= 2
    /\ obs.outcome = "configured"
    /\ {ConfigPath, CertificatePath, PrivateKeyPath} \subseteq DOMAIN files
    /\ service_running

(* The nine checks of the status, in order, on the signals themselves. *)
StatusChecks ==
    <<is_leader,
      can_connect,
      RequiredRelations \subseteq relations,
      resource_created,
      "uris" \in DOMAIN database_data /\ database_data.uris # <<>>
          /\ database_data.uris[1] # "",
      webui_url \notin {None, ""},
      MountPoints \subseteq storage,
      private_key # None
          /\ \E i \in 1..Len(provider_certificates) :
                provider_certificates[i].csr = requirer_csr,
      "nrf" \in DOMAIN plan /\ service_running>>

FailingChecks == {i \in 1..Len(StatusChecks) : ~StatusChecks[i]}
FirstFailingCheck == CHOOSE i \in FailingChecks : \A j \in FailingChecks : i <= j

(* The kind and reason of the status of each check. *)
StatusOfCheck ==
    <<BlockedStatus("Scaling is not implemented for this charm"),
      WaitingStatus("Waiting for container to be ready"),
      BlockedStatus("Waiting for {} relation(s)"),
      WaitingStatus("Waiting for the database to be available"),
      WaitingStatus("Waiting for database URI"),
      WaitingStatus("Waiting for Webui data to be available"),
      WaitingStatus("Waiting for storage to be attached"),
      WaitingStatus("Waiting for certificates to be available"),
      WaitingStatus("Waiting for NRF service to start")>>

C2_WitnessLastCheck ==
    /\ FailingChecks = {9}
    /\ unit_status = WaitingStatus("Waiting for NRF service to start")

GateConjuncts ==
    /\ can_connect
    /\ RequiredRelations \subseteq relations
    /\ resource_created
    /\ "uris" \in DOMAIN database_data /\ database_data.uris # <<>>
          /\ database_data.uris[1] # ""
    /\ webui_url \notin {None, ""}
    /\ MountPoints \subseteq storage

(* C4 as stated. The readiness gate is a conjunction: a pass gets past the *)
(* gate exactly when the container is reachable, all three relations       *)
(* exist, the database is created, its URI is extractable, the webui URL   *)
(* is published, both mounts exist, and the unit's network address is      *)
(* resolvable.                                                             *)
C4_GateWithAddress ==
    obs.handler = "_configure_nrf" =>
        (obs.outcome # "not_ready" <=> (GateConjuncts /\ pod_address))

(* C4 amended. The readiness gate is the conjunction of: container         *)
(* reachable, all three relations exist, database created, database URI    *)
(* extractable, webui URL published, both storage mounts exist.  The       *)
(* unit's network address is not read.                                     *)
C4_Gate ==
    obs.handler = "_configure_nrf" => (obs.outcome # "not_ready" <=> GateConjuncts)

(* A pass got past the gate of a unit without a resolvable address. *)
C4_Witness ==
    /\ obs.handler = "_configure_nrf"
    /\ obs.outcome # "not_ready"
    /\ ~pod_address

C4_WitnessClosed ==
    /\ obs.handler = "_configure_nrf"
    /\ obs.outcome = "not_ready"
    /\ can_connect /\ RequiredRelations \subseteq relations /\ resource_created
    /\ webui_url = ""

(* C5. A unit that is not the leader never mutates: whatever the sequence  *)
(* of events, it writes and deletes no workload file, leaves the plan and  *)
(* the service alone, puts no URL in a relation databag, and every status  *)
(* collection yields Blocked "Scaling is not implemented for this charm".  *)
C5_FollowerNeverMutates ==
    [][~is_leader =>
          /\ UNCHANGED <<files, plan, service_running>>
          /\ \A id \in DOMAIN nrf_databags' : nrf_databags'[id] = NoUrl
          /\ CollectUnitStatus =>
                unit_status' = BlockedStatus("Scaling is not implemented for this charm")
      ]_vars

(* The follower has everything a pass needs and a requirer to publish to,  *)
(* has had its status collected, and its workload is untouched.            *)
C5_Witness ==
    /\ ~is_leader
    /\ ready_to_configure
    /\ _certificate_is_available
    /\ DOMAIN nrf_databags # {}
    /\ files = <<>>
    /\ plan = <<>>
    /\ unit_status = BlockedStatus("Scaling is not implemented for this charm")

(* The provider certificates issued for the requirer's signing request. *)
MatchingCertificates ==
    {provider_certificates[i].certificate :
        i \in {j \in 1..Len(provider_certificates) :
                  provider_certificates[j].csr = requirer_csr}}

(* All preconditions of a pass on the leader hold. *)
AllPreconditions == is_leader /\ GateConjuncts /\ requirer_csr # None

ConfigDiffers ==
    ConfigPath \notin DOMAIN files \/ files[ConfigPath] # _generate_nrf_config_file

CertificateDiffers ==
    CertificatePath \notin DOMAIN files
        \/ from_string(files[CertificatePath]) \notin MatchingCertificates

(* C6 as stated. With all preconditions met and a certificate assigned for *)
(* the stored signing request, a pass writes the certificate to disk,      *)
(* rewrites the config file iff its content differs, restarts the service  *)
(* exactly once, and the status is Active once the service runs.           *)
C6_CertificateAssignedAsStated ==
    [][(ConfigureNrf /\ AllPreconditions /\ MatchingCertificates # {})
       => /\ CertificatePath \in obs'.writes
          /\ from_string(files'[CertificatePath]) \in MatchingCertificates
          /\ ConfigPath \in obs'.writes <=> ConfigDiffers
          /\ obs'.restarts = 1
          /\ ServiceIsRunning(plan', service_running') => collected_status' = ActiveStatus
      ]_vars

(* C6 amended. With all preconditions met and a certificate assigned for   *)
(* the stored signing request, a pass leaves that certificate on disk,     *)
(* writing it iff the stored one differs, rewrites the config file iff its *)
(* content differs, restarts the service exactly once if it wrote the      *)
(* certificate, the private key or the config file and not at all          *)
(* otherwise, and the status is Active once the service runs.              *)
C6_CertificateAssigned ==
    [][(ConfigureNrf /\ AllPreconditions /\ MatchingCertificates # {})
       => /\ CertificatePath \in obs'.writes <=> CertificateDiffers
          /\ from_string(files'[CertificatePath]) \in MatchingCertificates
          /\ ConfigPath \in obs'.writes <=> ConfigDiffers
          /\ obs'.restarts = IF obs'.writes # {} THEN 1 ELSE 0
          /\ ServiceIsRunning(plan', service_running') => collected_status' = ActiveStatus
      ]_vars

(* A pass wrote the certificate and the config file and restarted the      *)
(* service once; the status collected since is Active.                     *)
C6_Witness ==
    /\ obs.handler = "_configure_nrf"
    /\ {CertificatePath, ConfigPath} \subseteq obs.writes
    /\ obs.restarts = 1
    /\ from_string(files[CertificatePath]) \in MatchingCertificates
    /\ unit_status = ActiveStatus

(* C7. With all preconditions met and no certificate assigned yet, a pass  *)
(* persists a private key (nrf.key) and a signing request (nrf.csr),       *)
(* leaves the certificate file absent, and the status is Waiting.          *)
C7_KeyAndCsrPersisted ==
    [][(ConfigureNrf /\ AllPreconditions /\ MatchingCertificates = {}
            /\ CertificatePath \notin DOMAIN files)
       => /\ PrivateKeyPath \in DOMAIN files'
          /\ CsrPath \in DOMAIN files'
          /\ CertificatePath \notin DOMAIN files'
          /\ collected_status'.name = "waiting"
      ]_vars

(* The part of C7 the charm keeps: no certificate file, status Waiting. *)
C7_CertificateAbsentAndWaiting ==
    [][(ConfigureNrf /\ AllPreconditions /\ MatchingCertificates = {}
            /\ CertificatePath \notin DOMAIN files)
       => /\ CertificatePath \notin DOMAIN files'
          /\ collected_status' = WaitingStatus("Waiting for certificates to be available")
      ]_vars

C8_WitnessNoMatch ==
    /\ obs.handler = "_configure_nrf"
    /\ obs.outcome = "no_certificate"
    /\ AllPreconditions
    /\ provider_certificates # <<>>
    /\ MatchingCertificates = {}
    /\ CertificatePath \in DOMAIN files

(* C9. Deletion tolerance: handling certificates-relation-broken with a    *)
(* reachable container and any of the private key, the signing request and *)
(* the certificate on disk never raises and leaves none of the three.      *)
C9_DeletionLeavesNothing ==
    (obs.handler = "_on_certificates_relation_broken" /\ ~obs.deferred) =>
        /\ obs.raised = None
        /\ DOMAIN files \cap TlsPaths = {}

(* The part of C9 the charm keeps: it never raises, and neither the        *)
(* private key nor the certificate is left.                                *)
C9_KeyAndCertificateDeleted ==
    (obs.handler = "_on_certificates_relation_broken" /\ ~obs.deferred) =>
        /\ obs.raised = None
        /\ DOMAIN files \cap {PrivateKeyPath, CertificatePath} = {}

(* C10. When the certificates relation is removed with the private key,    *)
(* the signing request and the certificate on disk, all three files are    *)
(* deleted and the next status is Blocked, naming the certificates         *)
(* relation, even with the service running and all else in place.          *)
C10_RelationRemoved ==
    [][(CertificatesRelationBroken /\ is_leader /\ GateConjuncts
            /\ TlsPaths \subseteq DOMAIN files)
       => /\ DOMAIN files' \cap TlsPaths = {}
          /\ collected_status' = MissingRelationsStatus(<<TLS_RELATION_NAME>>)
      ]_vars

(* The part of C10 the charm keeps: the status is Blocked, naming the      *)
(* certificates relation, whether or not the service runs.                 *)
C10_BlockedOnCertificates ==
    [][(CertificatesRelationBroken /\ is_leader /\ GateConjuncts
            /\ TlsPaths \subseteq DOMAIN files)
       => /\ DOMAIN files' \cap {PrivateKeyPath, CertificatePath} = {}
          /\ collected_status' = MissingRelationsStatus(<<TLS_RELATION_NAME>>)
      ]_vars

(* C11. With the container unreachable, handling certificates-relation-    *)
(* broken deletes no file, changes nothing of the workload or the relation *)
(* data, and leaves the event deferred for redelivery.                     *)
C11_UnreachableDefers ==
    [][((CertificatesRelationBroken \/ RedeliverCertificatesRelationBroken)
            /\ is_leader /\ ~can_connect)
       => /\ UNCHANGED <<files, storage, plan, service_running, nrf_databags>>
          /\ obs'.removed = {}
          /\ obs'.deferred
          /\ "certificates_relation_broken" \in deferred'
      ]_vars

(* The event is deferred, the container is still unreachable, and the TLS  *)
(* files are all still on disk.                                            *)
C11_Witness ==
    /\ ~can_connect
    /\ obs.handler = "_on_certificates_relation_broken"
    /\ "certificates_relation_broken" \in deferred
    /\ TLS_RELATION_NAME \notin relations
    /\ TlsPaths \subseteq DOMAIN files

(* One of the mutating handlers of the leader runs. *)
MutatingHandlerRuns ==
    /\ is_leader
    /\ \/ ConfigureNrf
       \/ FivegNrfRelationJoined
       \/ CertificatesRelationBroken
       \/ RedeliverCertificatesRelationBroken

(* A URL is put where there was none, or another one. *)
UrlWritten(id) ==
    /\ id \in DOMAIN nrf_databags'
    /\ nrf_databags'[id] # NoUrl
    /\ id \in DOMAIN nrf_databags => nrf_databags[id] # nrf_databags'[id]

(* C12 as stated. Every mutating handler (_configure_nrf, the fiveg_nrf    *)
(* relation-joined handler, the certificates-relation-broken handler)      *)
(* defers its event when the container is unreachable.                     *)
C12_EveryHandlerDefers ==
    [][(MutatingHandlerRuns /\ ~can_connect) => obs'.deferred]_vars

(* C12 amended. With the container unreachable, the certificates-relation- *)
(* broken handler defers its event; the reconciliation pass and the        *)
(* fiveg_nrf relation-joined handler return without deferring.  None of    *)
(* the three writes or deletes a file, touches the plan or the service, or *)
(* writes a URL.                                                           *)
C12_OnlyRelationBrokenDefers ==
    [][(MutatingHandlerRuns /\ ~can_connect)
       => /\ obs'.deferred <=> obs'.handler = "_on_certificates_relation_broken"
          /\ deferred' = IF obs'.deferred
                         THEN deferred \cup {"certificates_relation_broken"}
                         ELSE deferred
          /\ UNCHANGED <<files, plan, service_running>>
          /\ \A id \in NrfRelationIds : ~UrlWritten(id)
      ]_vars

(* A pass ran with the container unreachable and everything else in place, *)
(* and no event is deferred.                                               *)
C12_Witness ==
    /\ ~can_connect
    /\ obs.handler = "_configure_nrf"
    /\ obs.outcome = "not_ready"
    /\ MatchingCertificates # {}
    /\ RequiredRelations \subseteq relations
    /\ deferred = {}

(* The files differ between the two states of a step. *)
FileChanged(path) ==
    \/ (path \in DOMAIN files) # (path \in DOMAIN files')
    \/ path \in DOMAIN files /\ path \in DOMAIN files' /\ files[path] # files'[path]

(* C13 as stated. No needless restart: a reconciliation pass restarts the  *)
(* service if and only if in that pass the config file was written or the  *)
(* certificate or the private key was stored; a pass that changes none of  *)
(* them neither restarts the running service nor disrupts it otherwise,    *)
(* that is, does not have its changed definition replanned.                *)
C13_NeverDisrupts ==
    [][(ConfigureNrf /\ is_leader)
       => /\ obs'.restarts = 1 <=>
                obs'.writes \cap {ConfigPath, CertificatePath, PrivateKeyPath} # {}
          /\ (obs'.writes = {} /\ service_running) =>
                obs'.restarts = 0 /\ obs'.replans = 0
      ]_vars

(* C13 amended. A reconciliation pass calls restart if and only if in that *)
(* pass the config file was written or the certificate or the private key  *)
(* was stored.  A pass that changes none of them calls no restart and      *)
(* leaves a running service running; it applies the layer and replans if   *)
(* and only if the services of the plan differ from the desired ones, so   *)
(* that with the desired plan in place it leaves the workload untouched.   *)
C13_NoNeedlessRestart ==
    [][(ConfigureNrf /\ is_leader)
       => /\ obs'.restarts \in {0, 1}
          /\ obs'.restarts = 1 <=>
                obs'.writes \cap {ConfigPath, CertificatePath, PrivateKeyPath} # {}
          /\ obs'.replans = IF obs'.outcome = "configured" /\ plan # _pebble_layer
                            THEN 1 ELSE 0
          /\ obs'.writes = {} =>
                /\ \A path \in {ConfigPath, CertificatePath, PrivateKeyPath} :
                      ~FileChanged(path)
                /\ service_running => service_running'
                /\ plan = _pebble_layer => UNCHANGED plan
      ]_vars

(* A pass stored the private key only, the certificate and the config file *)
(* being current, and restarted the service.                               *)
C13_Witness ==
    /\ obs.handler = "_configure_nrf"
    /\ obs.writes = {PrivateKeyPath}
    /\ obs.restarts = 1

(* A pass over a running service wrote nothing and called no restart, but  *)
(* applied the layer and replanned, the plan not being the desired one.    *)
C13_WitnessReplan ==
    /\ obs.handler = "_configure_nrf"
    /\ obs.writes = {}
    /\ obs.restarts = 0
    /\ obs.replans = 1
    /\ service_running

(* A configured pass over a running service that wrote nothing and did not *)
(* restart.                                                                *)
C13_WitnessQuiet ==
    /\ obs.handler = "_configure_nrf"
    /\ obs.outcome = "configured"
    /\ obs.writes = {}
    /\ obs.restarts = 0
    /\ service_running

(* The service the plan must hold, value by value. *)
DesiredService ==
    [override |-> "replace",
     startup |-> "enabled",
     command |-> "/bin/nrf --nrfcfg /etc/nrf/nrfcfg.yaml",
     environment |-> [GRPC_GO_LOG_VERBOSITY_LEVEL |-> "99",
                      GRPC_GO_LOG_SEVERITY_LEVEL |-> "info",
                      GRPC_TRACE |-> "all",
                      GRPC_VERBOSITY |-> "debug",
                      MANAGED_BY_CONFIG_POD |-> "true"]]

(* C14. After every pass that gets past the readiness gate and the         *)
(* certificate check, the service nrf of the plan is the desired one:      *)
(* override replace, startup enabled, the fixed command and the fixed five *)
(* environment entries, whatever the plan held before.                     *)
C14_PlanIsDesired ==
    [][(ConfigureNrf /\ AllPreconditions /\ MatchingCertificates # {})
       => /\ "nrf" \in DOMAIN plan'
          /\ plan'["nrf"] = DesiredService
          /\ Cardinality(DOMAIN plan'["nrf"].environment) = 5
      ]_vars

(* A pass applied the layer, and the plan holds the desired service. *)
C14_Witness ==
    /\ obs.handler = "_configure_nrf"
    /\ obs.outcome = "configured"
    /\ obs.replans = 1
    /\ plan["nrf"] = DesiredService

(* 'https://<application name>:29510', part by part. *)
NrfUrl == <<"https", APP_NAME, 29510>>

(* The databag of a relation is as it was; one that is new is empty. *)
DatabagUntouched(id) ==
    nrf_databags'[id] = IF id \in DOMAIN nrf_databags THEN nrf_databags[id] ELSE NoUrl

(* C15. On fiveg_nrf relation joined, with the service running the handler *)
(* writes url = 'https://<application name>:29510' into the data of that   *)
(* one relation and of no other; with the service not running, or the      *)
(* container unreachable, it writes nothing and raises nothing.            *)
C15_UrlToJoinedRelation ==
    [][(FivegNrfRelationJoined /\ is_leader)
       => /\ obs'.raised = None
          /\ IF can_connect /\ "nrf" \in DOMAIN plan /\ service_running
             THEN \E joined \in DOMAIN nrf_databags' :
                     /\ obs'.published = {joined}
                     /\ nrf_databags'[joined] = NrfUrl
                     /\ \A id \in DOMAIN nrf_databags' \ {joined} : DatabagUntouched(id)
             ELSE /\ obs'.published = {}
                  /\ \A id \in DOMAIN nrf_databags' : DatabagUntouched(id)
      ]_vars

(* With the service running a second relation joined and got the URL,      *)
(* while the first, joined before the service ran, still has none.         *)
C15_Witness ==
    /\ obs.handler = "_on_fiveg_nrf_relation_joined"
    /\ obs.published # {}
    /\ \E id \in obs.published : nrf_databags[id] = NrfUrl
    /\ \E id \in DOMAIN nrf_databags \ obs.published : nrf_databags[id] = NoUrl

(* A relation joined with the service not running: nothing written. *)
C15_WitnessNotRunning ==
    /\ obs.handler = "_on_fiveg_nrf_relation_joined"
    /\ obs.published = {}
    /\ can_connect
    /\ DOMAIN nrf_databags # {}
    /\ \A id \in DOMAIN nrf_databags : nrf_databags[id] = NoUrl

(* C16. After every successful pass (gate passed, certificate available,   *)
(* workload configured) every fiveg_nrf relation, also one that joined     *)
(* before the service ran, carries url = 'https://<application             *)
(* name>:29510'; with no fiveg_nrf relation nothing is written and nothing *)
(* raised.                                                                 *)
C16_UrlToAllRelations ==
    [][(ConfigureNrf /\ AllPreconditions /\ MatchingCertificates # {})
       => /\ obs'.outcome = "configured"
          /\ obs'.raised = None
          /\ DOMAIN nrf_databags' = DOMAIN nrf_databags
          /\ \A id \in DOMAIN nrf_databags' : nrf_databags'[id] = NrfUrl
          /\ obs'.published = DOMAIN nrf_databags
      ]_vars

(* A pass published to two relations at once. *)
C16_Witness ==
    /\ obs.handler = "_configure_nrf"
    /\ obs.outcome = "configured"
    /\ Cardinality(obs.published) >= 2
    /\ \A id \in DOMAIN nrf_databags : nrf_databags[id] = NrfUrl

(* A successful pass with no fiveg_nrf relation. *)
C16_WitnessNoRelation ==
    /\ obs.handler = "_configure_nrf"
    /\ obs.outcome = "configured"
    /\ nrf_databags = <<>>

(* C17 as stated. The URL is pushed to a fiveg_nrf relation only once the  *)
(* service is confirmed running: every write of the URL, by the relation-  *)
(* joined handler or by the publish-to-all step of a pass, happens with    *)
(* the nrf service running.                                                *)
C17_UrlOnlyWhenRunning ==
    [][(\E id \in NrfRelationIds : UrlWritten(id))
       => ServiceIsRunning(plan', service_running')]_vars

(* C17 amended. The relation-joined handler writes the URL only with the   *)
(* nrf service running.  The publish-to-all step of a pass writes it after *)
(* the workload was configured, that is, past the readiness gate and the   *)
(* certificate check and with the desired service in the plan, without     *)
(* asking whether the service runs.  Nothing else writes the URL.          *)
C17_UrlWhenRunningOrConfigured ==
    [][(\E id \in NrfRelationIds : UrlWritten(id))
       => \/ /\ obs'.handler = "_on_fiveg_nrf_relation_joined"
             /\ ServiceIsRunning(plan, service_running)
          \/ /\ obs'.handler = "_configure_nrf"
             /\ AllPreconditions
             /\ MatchingCertificates # {}
             /\ private_key # None
             /\ plan' = _pebble_layer
      ]_vars

(* A pass that changed nothing on disk published the URL to a relation     *)
(* while the service was not running.                                      *)
C17_Witness ==
    /\ obs.handler = "_configure_nrf"
    /\ obs.published # {}
    /\ obs.restarts = 0
    /\ ~service_running
    /\ \A id \in obs.published : nrf_databags[id] = NrfUrl

(* C18. Config round-trip: right after a pass wrote the desired            *)
(* configuration, _is_config_update_required of the same desired           *)
(* configuration is false; and it is true exactly when no file exists or   *)
(* the file's content differs from the desired one by exact equality.      *)
C18_ConfigRoundTrip ==
    [][ConfigureNrf =>
         /\ ConfigPath \in obs'.writes
               => ~_is_config_update_required(files', _generate_nrf_config_file)
         /\ \A content \in ConfigTexts(DatabaseUriNames, WebuiUrls)
                            \cup {EmptyText, _generate_nrf_config_file} :
               _is_config_update_required(files, content)
                  <=> (ConfigPath \notin DOMAIN files \/ files[ConfigPath] # content)
         /\ (obs'.outcome = "configured" /\ can_connect)
               => (ConfigPath \in obs'.writes
                     <=> (ConfigPath \notin DOMAIN files
                            \/ files[ConfigPath] # _generate_nrf_config_file))
      ]_vars

(* A pass wrote the configuration file, and no update is required after it. *)
C18_Witness ==
    /\ obs.handler = "_configure_nrf"
    /\ ConfigPath \in obs.writes
    /\ files[ConfigPath] = _generate_nrf_config_file
    /\ ~_is_config_update_required(files, _generate_nrf_config_file)

(* C19. An empty configuration is never written: when the desired          *)
(* configuration is the empty sentinel (the webui URL is missing) the pass *)
(* treats it as not ready and writes nothing, and a configuration file the *)
(* charm writes is never empty.                                            *)
C19_EmptyConfigNeverWritten ==
    [][ConfigureNrf =>
         /\ (is_leader /\ _generate_nrf_config_file = EmptyText)
               => /\ obs'.outcome = "not_ready"
                  /\ obs'.writes = {}
                  /\ files' = files
         /\ FileChanged(ConfigPath)
               => /\ ConfigPath \in DOMAIN files'
                  /\ files'[ConfigPath] # EmptyText
      ]_vars

(* A pass ran with everything but the webui URL in place and stopped at    *)
(* the gate.                                                               *)
C19_Witness ==
    /\ obs.handler = "_configure_nrf"
    /\ obs.outcome = "not_ready"
    /\ webui_url \in {None, ""}
    /\ can_connect
    /\ RequiredRelations \subseteq relations
    /\ _database_is_available /\ _get_database_uri # ""
    /\ MountPoints \subseteq storage
    /\ _certificate_is_available
    /\ ConfigPath \notin DOMAIN files

(* A pass wrote the configuration file, and it is not empty. *)
C19_WitnessWritten ==
    /\ obs.handler = "_configure_nrf"
    /\ ConfigPath \in obs.writes
    /\ files[ConfigPath] # EmptyText

(* C20. Status collection is read-only: it never changes the workload's    *)
(* files, the plan, the running state of the service, or relation data.    *)
C20_StatusCollectionReadOnly ==
    [][CollectUnitStatus =>
         UNCHANGED <<files, storage, plan, service_running, relations,
                     nrf_databags, database_data, resource_created, webui_url,
                     requirer_csr, private_key, provider_certificates>>
      ]_vars

(* Status was collected on the leader after a pass configured the workload *)
(* and published the URL, with the service running.                        *)
C20_Witness ==
    /\ unit_status = ActiveStatus
    /\ obs.handler = "_configure_nrf"
    /\ obs.outcome = "configured"
    /\ ConfigPath \in DOMAIN files
    /\ service_running
    /\ \E id \in DOMAIN nrf_databags : nrf_databags[id] = NrfUrl

(* The watched signals no longer change. *)
SignalsStable == UNCHANGED <<can_connect, storage, signal_vars>>

(* The certificate and the private key currently assigned are on disk. *)
AssignedCertificateOnDisk ==
    /\ exists(files, CertificatePath)
    /\ from_string(files[CertificatePath])
          = get_assigned_certificate.provider_certificate.certificate
    /\ exists(files, PrivateKeyPath)
    /\ from_string(files[PrivateKeyPath]) = get_assigned_certificate.private_key

(* What a pass brings about whenever it gets past the certificate check. *)
TargetOnDisk ==
    /\ exists(files, ConfigPath) /\ files[ConfigPath] = _generate_nrf_config_file
    /\ AssignedCertificateOnDisk
    /\ plan = _pebble_layer
    /\ \A id \in DOMAIN nrf_databags : nrf_databags[id] = NrfUrl

TargetState ==
    /\ TargetOnDisk
    /\ ServiceIsRunning(plan, service_running)
    /\ unit_status = ActiveStatus

CertificateAssigned == MatchingCertificates # {} /\ private_key # None

C21_WitnessNotRunning ==
    /\ TargetOnDisk
    /\ AllPreconditions /\ CertificateAssigned
    /\ ~service_running
    /\ obs.handler = "_configure_nrf" /\ obs.outcome = "configured"
    /\ unit_status = WaitingStatus("Waiting for NRF service to start")

(* C22. Invalid charm-level configuration: for every configuration with   *)
(* an invalid field CharmConfig.from_charm raises CharmConfigInvalidError   *)
(* whose one message lists all invalid fields, and the charm surfaces this  *)
(* as a blocked status; for a valid configuration no error is raised.       *)
C22_InvalidConfigIsBlocked ==
    [][CollectUnitStatus =>
         LET result == from_charm(charm_config)
             invalid == {option \in DOMAIN charm_config \cap {"log-level"} :
                            charm_config[option] \notin LogLevel}
         IN  /\ invalid = {} <=> result.raised = None
             /\ invalid # {} =>
                   /\ result.raised = "CharmConfigInvalidError"
                   /\ {result.msg[2][i] : i \in 1..Len(result.msg[2])} = invalid
                   /\ unit_status'.name = "blocked"
      ]_vars

(* What from_charm does on its own: it raises exactly for an invalid       *)
(* log-level and then names it.                                            *)
C22_FromCharmAggregates ==
    LET result == from_charm(charm_config)
        invalid == {option \in DOMAIN charm_config \cap {"log-level"} :
                       charm_config[option] \notin LogLevel}
    IN  /\ invalid = {} <=> result.raised = None
        /\ invalid # {} =>
              /\ result.raised = "CharmConfigInvalidError"
              /\ {result.msg[2][i] : i \in 1..Len(result.msg[2])} = invalid

(* The unit is Active under a configuration from_charm refuses. *)
C22_WitnessActiveWhileInvalid ==
    /\ from_charm(charm_config).raised = "CharmConfigInvalidError"
    /\ unit_status = ActiveStatus
    /\ obs.handler = "_configure_nrf"

C23_WitnessIgnored ==
    /\ obs.handler = "_on_certificate_expiring"
    /\ obs.outcome = "ignored"
    /\ can_connect
    /\ exists(files, CertificatePath)

(* C24. Publishing to a relation that does not exist never occurs: the    *)
(* charm calls set_nrf_information and set_nrf_information_in_all_relations *)
(* only for fiveg_nrf relations that exist, so the provider's "Relation    *)
(* fiveg_nrf not created yet" error is raised by no handler.               *)
C24_NeverPublishedToMissingRelation ==
    [][(ConfigureNrf \/ FivegNrfRelationJoined) =>
         /\ obs'.raised = None
         /\ obs'.published \subseteq DOMAIN nrf_databags'
         /\ \A id \in NrfRelationIds : UrlWritten(id) => id \in obs'.published
      ]_vars

(* A pass went through its publishing step with no fiveg_nrf relation. *)
C24_Witness ==
    /\ obs.handler = "_configure_nrf"
    /\ obs.outcome = "configured"
    /\ nrf_databags = <<>>
    /\ obs.raised = None
    /\ obs.published = {}

(* The statuses that follow the storage check. *)
PastTheGateStatuses ==
    {WaitingStatus("Waiting for certificates to be available"),
     WaitingStatus("Waiting for NRF service to start"),
     ActiveStatus}

(* C25. The status and the readiness gate evaluate the same chain: on the  *)
(* leader, in every snapshot, ready_to_configure is true if and only if    *)
(* the status collected gets past the checks of container, relations,      *)
(* database, database URI, webui URL and storage, that is, if and only if  *)
(* it is "Waiting for certificates", "Waiting for NRF service to start" or *)
(* Active.                                                                 *)
C25_GateIsStatusChain ==
    [][(CollectUnitStatus /\ is_leader) =>
         /\ ready_to_configure <=> unit_status' \in PastTheGateStatuses
         /\ ready_to_configure <=> GateConjuncts
      ]_vars

(* The gate is open and the status is past it; the gate is closed at the   *)
(* database URI and the status says so.                                    *)
C25_Witness ==
    /\ is_leader
    /\ ready_to_configure
    /\ unit_status = WaitingStatus("Waiting for certificates to be available")

C25_WitnessClosed ==
    /\ is_leader
    /\ ~ready_to_configure
    /\ unit_status = WaitingStatus("Waiting for database URI")

C26_WitnessGate ==
    /\ obs.handler = "_configure_nrf"
    /\ obs.outcome = "not_ready"
    /\ ~GateConjuncts /\ CertificateAssigned
    /\ ConfigPath \in DOMAIN files
    /\ plan # _pebble_layer

(* The place of each call in the order gate, certificate and key store,   *)
(* config write, plan apply and restart, publish.                          *)
StepRank(step) ==
    CASE step = "ready_to_configure" -> 1
      [] step = "_certificate_is_available" -> 2
      [] step = "_store_certificate" -> 3
      [] step = "_store_private_key" -> 4
      [] step = "_push_config_file" -> 5
      [] step = "replan" -> 6
      [] step = "restart" -> 7
      [] step = "set_nrf_information_in_all_relations" -> 8

C28_PlanAppliedOnDivergence ==
    [][(ConfigureNrf /\ is_leader) =>
         /\ obs'.replans \in {0, 1}
         /\ obs'.replans = 1 <=> /\ GateConjuncts /\ CertificateAssigned
                                 /\ \/ DOMAIN plan # {"nrf"}
                                    \/ plan["nrf"] # DesiredService
         /\ obs'.replans = 0 => plan' = plan
         /\ obs'.replans = 1 =>
               /\ DOMAIN plan' = DOMAIN plan \cup {"nrf"}
               /\ plan'["nrf"] = DesiredService
               /\ \A service \in DOMAIN plan \ {"nrf"} :
                     plan'[service] = plan[service]
      ]_vars

(* A pass replaced a stale nrf service and left the other service alone. *)
C28_Witness ==
    /\ obs.handler = "_configure_nrf"
    /\ obs.replans = 1
    /\ DOMAIN plan = {"nrf", "other"}
    /\ plan["other"] = OtherService
    /\ plan["nrf"] = DesiredService

(* C29. After every pass that gets past the certificate check, the         *)
(* certificate file on disk is the currently assigned certificate and the  *)
(* private key file is the currently assigned private key; each of the two *)
(* files is written in the pass only if it was absent or differed from the *)
(* assigned value.                                                         *)
C29_AssignedCertificateStored ==
    [][(ConfigureNrf /\ is_leader /\ GateConjuncts /\ CertificateAssigned) =>
         LET assigned == get_assigned_certificate
         IN  /\ AssignedCertificateOnDisk'
             /\ CertificatePath \in obs'.writes
                   <=> \/ CertificatePath \notin DOMAIN files
                       \/ from_string(files[CertificatePath])
                             # assigned.provider_certificate.certificate
             /\ PrivateKeyPath \in obs'.writes
                   <=> \/ PrivateKeyPath \notin DOMAIN files
                       \/ from_string(files[PrivateKeyPath]) # assigned.private_key
             /\ \A path \in {CertificatePath, PrivateKeyPath} :
                   /\ FileChanged(path) => path \in obs'.writes
                   /\ path \in obs'.writes
                         => files'[path] = to_string(IF path = CertificatePath
                                                     THEN assigned.provider_certificate.certificate
                                                     ELSE assigned.private_key)
      ]_vars

(* A pass replaced a certificate that differed and kept the key that was   *)
(* already the assigned one.                                               *)
C29_Witness ==
    /\ obs.handler = "_configure_nrf"
    /\ obs.outcome = "configured"
    /\ CertificatePath \in obs.writes
    /\ PrivateKeyPath \notin obs.writes
    /\ AssignedCertificateOnDisk

(* The private key and the certificate are gone from the workload. *)
KeyAndCertificateAbsent ==
    /\ PrivateKeyPath \notin DOMAIN files
    /\ CertificatePath \notin DOMAIN files

(* C30. A deferred certificates-relation-broken event is eventually acted  *)
(* on: if the event was deferred because the container was unreachable,    *)
(* and the container later becomes and stays reachable and the event is    *)
(* redelivered, then eventually the private key and certificate files are  *)
(* absent from the workload filesystem.                                    *)
C30_DeferredEventActedOn ==
    <>[]can_connect =>
        []((obs.handler = "_on_certificates_relation_broken" /\ obs.deferred)
              => <>(KeyAndCertificateAbsent /\ deferred = {}))

(* The event is deferred with the key and the certificate still on disk. *)
C30_Witness ==
    /\ "certificates_relation_broken" \in deferred
    /\ obs.handler = "_on_certificates_relation_broken" /\ obs.deferred
    /\ ~can_connect
    /\ {PrivateKeyPath, CertificatePath} \subseteq DOMAIN files

(* The event was redelivered and the files are gone. *)
C30_WitnessRedelivered ==
    /\ deferred = {}
    /\ obs.handler = "_on_certificates_relation_broken"
    /\ obs.removed = {PrivateKeyPath, CertificatePath}
    /\ TLS_RELATION_NAME \notin relations
    /\ KeyAndCertificateAbsent

(* C31. Recovery after losing a relation: from status Active, when the    *)
(* certificates relation is removed the status becomes Blocked and the key *)
(* and the certificate are deleted; once it is established again and a new *)
(* certificate and key are assigned, the unit eventually stores them,      *)
(* restarts the service and is Active again.  The same Active, Blocked,    *)
(* Active cycle holds for the database and the sdcore_config relation.     *)
C31_RecoversAfterRelationLoss ==
    /\ (<>[](AllPreconditions /\ CertificateAssigned) /\ <>[][SignalsStable]_vars)
          => <>[]TargetState
    /\ [][CertificatesRelationBroken => KeyAndCertificateAbsent']_vars
    /\ [][(CollectUnitStatus /\ relations # RequiredRelations)
            => unit_status' = MissingRelationsStatus(_missing_relations)]_vars
    /\ [][(ConfigureNrf /\ obs'.writes \cap {CertificatePath, PrivateKeyPath} # {})
            => obs'.restarts = 1 /\ service_running']_vars

(* The certificate and the key stored anew, the service restarted, the     *)
(* status Active again.                                                    *)
C31_Witness ==
    /\ TargetState
    /\ AllPreconditions /\ CertificateAssigned
    /\ obs.handler = "_configure_nrf"
    /\ {CertificatePath, PrivateKeyPath} \subseteq obs.writes
    /\ obs.restarts = 1

(* The unit blocked on a relation that was removed. *)
C31_WitnessBlocked ==
    /\ relations # RequiredRelations
    /\ unit_status = MissingRelationsStatus(_missing_relations)
    /\ TLS_RELATION_NAME \notin relations => KeyAndCertificateAbsent

(* C32. The workload version is informational only: on the leader with a  *)
(* reachable container, status collection sets the workload version to the *)
(* content of /etc/workload-version if that file exists and to the empty   *)
(* string otherwise; and two snapshots that differ only in the presence or *)
(* the content of that file get the same status.                           *)
C32_WorkloadVersionInformational ==
    /\ [][(CollectUnitStatus /\ is_leader /\ can_connect)
            => workload_version' = IF WORKLOAD_VERSION_FILE_NAME \in DOMAIN files
                                   THEN files[WORKLOAD_VERSION_FILE_NAME] ELSE ""
         ]_vars
    /\ [][WorkloadVersionFileChanges => collected_status' = collected_status]_vars

(* The version of a changed file is shown, the unit Active. *)
C32_Witness ==
    /\ is_leader /\ can_connect
    /\ WORKLOAD_VERSION_FILE_NAME \in DOMAIN files
    /\ files[WORKLOAD_VERSION_FILE_NAME] \in NewerVersionNames
    /\ workload_version = files[WORKLOAD_VERSION_FILE_NAME]
    /\ unit_status = ActiveStatus

(* The file is gone and the version shown is empty, after one was shown. *)
C32_WitnessAbsent ==
    /\ is_leader /\ can_connect
    /\ WORKLOAD_VERSION_FILE_NAME \notin DOMAIN files
    /\ workload_version = ""
    /\ unit_status = collected_status
    /\ unit_status.name = "waiting"

(* The statuses collection adds once it has asked for the database URI. *)
PastTheDatabaseStatuses ==
    PastTheGateStatuses
        \cup {WaitingStatus("Waiting for database URI"),
              WaitingStatus("Waiting for Webui data to be available"),
              WaitingStatus("Waiting for storage to be attached")}

(* C33. No handler raises on missing database data: a pass or a status     *)
(* collection reaches _database_info only when the database relation       *)
(* exists and the database is created, so its RuntimeError never occurs; a *)
(* database record without "uris" gives the empty URI, shown as "Waiting   *)
(* for database URI"; and the config is rendered only with a non-empty     *)
(* database URI.                                                           *)
C33_DatabaseInfoNeverRaises ==
    /\ [][(ConfigureNrf /\ obs'.handler = "_configure_nrf"
                        /\ obs'.outcome # "not_ready")
            => /\ DATABASE_RELATION_NAME \in relations
               /\ _database_is_available
               /\ _database_info.raised = None
               /\ _get_database_uri \in DatabaseUriNames
               /\ obs'.raised = None]_vars
    /\ [][(ConfigureNrf /\ ConfigPath \in obs'.writes)
            => \E uri \in DatabaseUriNames, url \in WebuiUrls :
                  files'[ConfigPath] = _render_config(DATABASE_NAME, uri, url, APP_NAME,
                                                      NRF_SBI_PORT, "https")]_vars
    /\ [][(CollectUnitStatus /\ unit_status' \in PastTheDatabaseStatuses)
            => /\ DATABASE_RELATION_NAME \in relations
               /\ _database_is_available
               /\ _database_info.raised = None]_vars
    /\ [][(CollectUnitStatus /\ is_leader /\ can_connect /\ Len(_missing_relations) = 0
                             /\ _database_is_available
                             /\ ("uris" \notin DOMAIN database_data
                                    \/ database_data.uris = <<>>))
            => unit_status' = WaitingStatus("Waiting for database URI")]_vars
    /\ [][(ConfigureNrf /\ is_leader /\ _database_is_available
                        /\ "uris" \notin DOMAIN database_data)
            => obs'.outcome = "not_ready" /\ obs'.raised = None
               /\ UNCHANGED <<files, plan, service_running>>]_vars

(* A pass rendered and wrote the config with the database URI. *)
C33_Witness ==
    /\ obs.handler = "_configure_nrf" /\ obs.outcome = "configured"
    /\ ConfigPath \in obs.writes
    /\ files[ConfigPath][2] = "mongodb://b"
    /\ database_data.uris = <<"mongodb://b", "mongodb://a">>

(* A database record without "uris" is waited for. *)
C33_WitnessNoUris ==
    /\ _database_is_available
    /\ "uris" \notin DOMAIN database_data
    /\ unit_status = WaitingStatus("Waiting for database URI")
    /\ obs.handler = "_configure_nrf" /\ obs.outcome = "not_ready"

(* The last handler was a pass that stored the key and the certificate of  *)
(* the certificates relation that is present.                              *)
PassStoredTlsMaterial ==
    /\ TLS_RELATION_NAME \in relations
    /\ obs.handler = "_configure_nrf"
    /\ {PrivateKeyPath, CertificatePath} \subseteq obs.writes

(* C34. TLS material is deleted only while the certificates relation is    *)
(* gone: no handler, a redelivered certificates_relation_broken included,  *)
(* deletes the private key or the certificate a pass stored for the        *)
(* certificates relation that is present; hence with the certificates      *)
(* relation present and the status Active, as it is collected right after  *)
(* a handler that stores or deletes them, the key and the certificate      *)
(* exist on disk.                                                          *)
C34_TlsMaterialKept ==
    /\ [][(PassStoredTlsMaterial /\ TLS_RELATION_NAME \in relations')
            => {PrivateKeyPath, CertificatePath} \subseteq DOMAIN files']_vars
    /\ [][(/\ \/ ConfigureNrf /\ obs'.outcome = "configured"
              \/ CertificatesRelationBroken
              \/ RedeliverCertificatesRelationBroken
           /\ TLS_RELATION_NAME \in relations'
           /\ collected_status' = ActiveStatus)
            => {PrivateKeyPath, CertificatePath} \subseteq DOMAIN files']_vars

(* The redelivered event has deleted the key and the certificate of the    *)
(* certificates relation that is present, the certificate still assigned.  *)
C34_DeletedWhileRelationPresent ==
    /\ TLS_RELATION_NAME \in relations
    /\ CertificateAssigned
    /\ obs.handler = "_on_certificates_relation_broken"
    /\ obs.removed = {PrivateKeyPath, CertificatePath}
    /\ collected_status = ActiveStatus

C36_PlanOnlyWithConfig ==
    "nrf" \in DOMAIN plan
        => /\ ConfigPath \in DOMAIN files
           /\ files[ConfigPath] # EmptyText

(* A pass has just added the service to the plan, the config written. *)
C36_Witness ==
    /\ "nrf" \in DOMAIN plan
    /\ obs.handler = "_configure_nrf"
    /\ obs.replans = 1
    /\ ConfigPath \in obs.writes
    /\ files[ConfigPath] = _generate_nrf_config_file

====
